---- MODULE Spec2Model ----
(***************************************************************************)
(* Model of the foxtive-ntex-multipart crate: the Content-Disposition      *)
(* parser, the Multipart aggregator (process / validate), the typed field  *)
(* accessors (post, post_or, post_opt) and the file Validator.             *)
(*                                                                         *)
(* Strings are sequences of one-character strings, so that trimming,       *)
(* splitting, quote stripping, lower-casing and number parsing are         *)
(* computed the way the code computes them.                                *)
(***************************************************************************)
EXTENDS Integers, Sequences, FiniteSets, TLC

VARIABLES
    \* ---- Multipart aggregator (multipart.rs) ----
    pc,           \* "idle" | "running" | "panicked": position of the task owning the Multipart
    caller,       \* which async fn is running: [fn |-> "none" | "process" | "validate", ...]
    streamState,  \* the underlying NtexMultipart stream: "open" | "ended" | "failed"
    delivered,    \* history: the items the stream has yielded so far, in order
    data_inputs,  \* HashMap<String, Vec<DataInput>>
    file_inputs,  \* HashMap<String, Vec<FileInput>>
    createCalls,  \* history: number of times FileInput::create was entered
    endsSeen,     \* history: number of times the stream has yielded None, up to MaxEnds
    ret,          \* what the last completed call returned to the application
    \* ---- ContentDisposition::parse applied to generated headers ----
    cdSegs,       \* the segments the header under test is made of
    cdResult,     \* ContentDispositionParseResult of that header, or NoValue
    \* ---- Validator::validate_files applied to generated inputs ----
    vRules,       \* FileRules under test, or NoValue
    vFiles,       \* Option<&Vec<FileInput>> under test, or NoValue
    vResult,      \* Result<(), InputError> of validate_files, or NoValue
    vMessage,     \* the Display text of the ValidationError made of that error, or NoValue
    \* ---- HttpError turned into a status and a response (foxtive-ntex error.rs) ----
    hErr,         \* the HttpError under consideration, or NoValue
    hStatus,      \* StatusCode given by status_code for it, as an Option
    hResp,        \* HttpResponse built by error_response for it, or NoValue
    \* ---- Multipart::save_file on a generated FileInput and target path ----
    sFile,        \* the FileInput handed to save_file, or NoValue
    sDisk,        \* content of the target path: None when there is no such file
    sStep,        \* position in save_file: "idle" | "create" | "write" | "flush" | "done"
    sWritten,     \* number of segments handed to write_all so far
    sFault,       \* history: the operation of the file system that failed, or "none"
    sResult,      \* MultipartResult<()> of save_file, or NoValue
    \* ---- ExecutorMiddlewareInternal::call (foxtive-ntex executor.rs) ----
    mCall,        \* the call under way: [kind, req, shared], or NoValue
    mStep,        \* "idle" | "entered" | "before" | "handler" | "after" | "done" | "panicked"
    mHist,        \* history: what the middleware fn and the handler were given and returned
    mOutcome,     \* Result<WebResponse, Error> of call, or NoValue
    \* ---- ContentDisposition::parse on values written with layers of quotes ----
    qParam,       \* the parameter under test: [key, inner, layers, pad], or NoValue
    qResult,      \* ContentDispositionParseResult of its header, or NoValue
    \* ---- register_routes ----
    rRoute,       \* the Route of the running iteration of `for route in routes`, or NoValue
    rCtl,         \* index of the controller the inner loop handles next
    rDone,        \* number of routes whose iteration has finished
    rConfig       \* the scopes given to config.service, in order

vars == << pc, caller, streamState, delivered, data_inputs, file_inputs,
           createCalls, endsSeen, ret, cdSegs, cdResult, vRules, vFiles, vResult,
           vMessage, hErr, hStatus, hResp, sFile, sDisk, sStep, sWritten, sFault, sResult,
           mCall, mStep, mHist, mOutcome, qParam, qResult,
           rRoute, rCtl, rDone, rConfig >>

mpVars == << pc, caller, streamState, delivered, data_inputs, file_inputs,
             createCalls, endsSeen, ret >>
cdVars == << cdSegs, cdResult >>
valVars == << vRules, vFiles, vResult, vMessage >>
httpVars == << hErr, hStatus, hResp >>
saveVars == << sFile, sDisk, sStep, sWritten, sFault, sResult >>
mwVars == << mCall, mStep, mHist, mOutcome >>
quoteVars == << qParam, qResult >>
routeVars == << rRoute, rCtl, rDone, rConfig >>

\* the variables of the parts added after the first four
auxVars == << saveVars, mwVars, quoteVars, routeVars >>

(***************************************************************************)
(* Bounds of the model.                                                    *)
(***************************************************************************)
MaxParts == 2     \* parts (or errors) the stream yields before it must end
MaxSegs == 2      \* `;`-separated segments of a generated header
MaxFiles == 2     \* files in a generated Vec<FileInput>
MaxEnds == 2      \* ends of the stream that are counted
MaxChunks == 2    \* byte segments of a generated FileInput
MaxLayers == 2    \* layers of double quotes written around a parameter value
MaxRoutes == 1    \* routes given to register_routes
MaxControllers == 2   \* controllers of a route
MaxMiddlewares == 4   \* middlewares of a route

(***************************************************************************)
(* Option and Result values.                                               *)
(***************************************************************************)
NoValue == [none |-> TRUE]
None == [some |-> FALSE]
Some(v) == [some |-> TRUE, v |-> v]
Ok(v) == [tag |-> "ok", v |-> v]
Err(e) == [tag |-> "err", v |-> e]
Panic == [tag |-> "panic", v |-> "unwrap"]
IsOk(r) == r.tag = "ok"
IsErr(r) == r.tag = "err"
Unit == "()"

(***************************************************************************)
(* str helpers of the standard library, as the code uses them.             *)
(***************************************************************************)
WhiteSpace == {" ", "\t", "\n"}

RECURSIVE TrimStart(_)
TrimStart(s) ==
    IF s = <<>> THEN s
    ELSE IF Head(s) \in WhiteSpace THEN TrimStart(Tail(s)) ELSE s

RECURSIVE TrimEnd(_)
TrimEnd(s) ==
    IF s = <<>> THEN s
    ELSE IF s[Len(s)] \in WhiteSpace THEN TrimEnd(SubSeq(s, 1, Len(s) - 1)) ELSE s

\* str::trim
Trim(s) == TrimEnd(TrimStart(s))

RECURSIVE StripLeading(_, _)
StripLeading(s, c) ==
    IF s = <<>> THEN s
    ELSE IF Head(s) = c THEN StripLeading(Tail(s), c) ELSE s

RECURSIVE StripTrailing(_, _)
StripTrailing(s, c) ==
    IF s = <<>> THEN s
    ELSE IF s[Len(s)] = c THEN StripTrailing(SubSeq(s, 1, Len(s) - 1), c) ELSE s

\* str::trim_matches(c): every leading and every trailing c is removed
TrimMatches(s, c) == StripTrailing(StripLeading(s, c), c)

\* index of the first c in s, 0 when there is none
RECURSIVE FindFrom(_, _, _)
FindFrom(s, c, i) ==
    IF i > Len(s) THEN 0
    ELSE IF s[i] = c THEN i ELSE FindFrom(s, c, i + 1)

\* str::split(c): the pieces between the c's, at least one piece
RECURSIVE Split(_, _)
Split(s, c) ==
    LET i == FindFrom(s, c, 1)
    IN  IF i = 0 THEN << s >>
        ELSE << SubSeq(s, 1, i - 1) >> \o Split(SubSeq(s, i + 1, Len(s)), c)

\* str::split_once(c): the text before and after the first c
SplitOnce(s, c) ==
    LET i == FindFrom(s, c, 1)
    IN  IF i = 0 THEN None
        ELSE Some(<< SubSeq(s, 1, i - 1), SubSeq(s, i + 1, Len(s)) >>)

(***************************************************************************)
(* ContentDisposition (content_disposition.rs).                            *)
(***************************************************************************)
\* HashMap::insert
MapInsert(m, k, v) ==
    [x \in (DOMAIN m) \cup {k} |-> IF x = k THEN v ELSE m[x]]

\* HashMap::get
MapGet(m, k) == IF k \in DOMAIN m THEN Some(m[k]) ELSE None

EmptyMap == [x \in {} |-> <<>>]

W_name == << "n", "a", "m", "e" >>
W_filename == << "f", "i", "l", "e", "n", "a", "m", "e" >>

\* variant of ParsedValue: the white space around the value is not trimmed first
ParsedValueUntrimmed(value) == TrimMatches(value, "\"")

\* the value stored for one `key=value` segment
ParsedValue(value) == TrimMatches(Trim(value), "\"")

\* the body of the `for part in content_disposition.split(';')` loop
RECURSIVE ParseSegments(_, _)
ParseSegments(parts, variables) ==
    IF parts = <<>> THEN variables
    ELSE LET part == Trim(Head(parts))
             kv == SplitOnce(part, "=")
         IN  IF kv.some
             THEN ParseSegments(Tail(parts),
                     MapInsert(variables, Trim(kv.v[1]), ParsedValue(kv.v[2])))
             ELSE ParseSegments(Tail(parts), variables)

\* variant of Parse: the two flags are derived from each other's key
ParseFlagsSwapped(content_disposition) ==
    LET variables == ParseSegments(Split(content_disposition, ";"), EmptyMap)
    IN  [ variables |-> variables,
          is_file_field |-> W_name \in DOMAIN variables,
          has_name_field |-> W_filename \in DOMAIN variables ]

\* ContentDisposition::parse
Parse(content_disposition) ==
    LET variables == ParseSegments(Split(content_disposition, ";"), EmptyMap)
    IN  [ variables |-> variables,
          is_file_field |-> W_filename \in DOMAIN variables,
          has_name_field |-> W_name \in DOMAIN variables ]

\* ContentDisposition::create
Create(content_disposition) == Parse(content_disposition)

\* ContentDisposition::get_variable
GetVariable(cd, key) == MapGet(cd.variables, key)

(***************************************************************************)
(* Headers for ContentDisposition::parse: a header is a list of segments   *)
(* joined by `;`. A segment is `k="v"` with optional white space before    *)
(* the key, around `=` and after the closing quote, or a bare token        *)
(* without `=`.                                                            *)
(***************************************************************************)
W_form_data == << "f", "o", "r", "m", "-", "d", "a", "t", "a" >>

CdKeys == { W_name, W_filename, << "x" >> }
CdVals == { << "a" >>, << "s", " ", "n" >>, << "p", "=", "q" >>, <<>> }
CdBare == { W_form_data, <<>> }
CdPads ==
    { [pre |-> <<>>, beq |-> <<>>, aeq |-> <<>>, post |-> <<>>],
      [pre |-> << " " >>, beq |-> <<>>, aeq |-> <<>>, post |-> <<>>],
      [pre |-> << " ", " " >>, beq |-> << " " >>, aeq |-> << "\t", " " >>,
       post |-> << " " >>] }

CdSegments ==
    [kind : {"kv"}, k : CdKeys, v : CdVals, pad : CdPads]
        \cup [kind : {"bare"}, text : CdBare, pad : CdPads]

RenderSegment(seg) ==
    IF seg.kind = "kv"
    THEN seg.pad.pre \o seg.k \o seg.pad.beq \o << "=" >> \o seg.pad.aeq
            \o << "\"" >> \o seg.v \o << "\"" >> \o seg.pad.post
    ELSE seg.pad.pre \o seg.text \o seg.pad.post

RECURSIVE RenderHeader(_)
RenderHeader(segs) ==
    IF segs = <<>> THEN <<>>
    ELSE IF Len(segs) = 1 THEN RenderSegment(segs[1])
    ELSE RenderSegment(Head(segs)) \o << ";" >> \o RenderHeader(Tail(segs))

CDInit ==
    /\ cdSegs = <<>>
    /\ cdResult = NoValue

\* the header under test grows by one segment
CDAddSegment ==
    /\ cdResult = NoValue
    /\ Len(cdSegs) < MaxSegs
    /\ \E seg \in CdSegments : cdSegs' = Append(cdSegs, seg)
    /\ UNCHANGED cdResult

\* ContentDisposition::parse is applied to the header
CDParse ==
    /\ cdResult = NoValue
    /\ cdResult' = Parse(RenderHeader(cdSegs))
    /\ UNCHANGED cdSegs

(***************************************************************************)
(* Headers `form-data; k=v` whose value v is a text written inside 0 to    *)
(* MaxLayers layers of double quotes.                                      *)
(***************************************************************************)
\* the texts written inside the quotes
QInner == { << "a" >>, << " ", "a", " " >>, << "a", " ", "b" >>, <<>> }

\* s inside n layers of double quotes
RECURSIVE Quoted(_, _)
Quoted(s, n) == IF n = 0 THEN s ELSE << "\"" >> \o Quoted(s, n - 1) \o << "\"" >>

\* the header `form-data; k=v`, v being the parameter's text in its layers of quotes
QHeader(param) ==
    W_form_data \o << ";" >> \o param.pad.pre \o param.key \o param.pad.beq \o << "=" >>
        \o param.pad.aeq \o Quoted(param.inner, param.layers) \o param.pad.post

QInit ==
    /\ qParam = NoValue
    /\ qResult = NoValue

\* a parameter is written
QWrite ==
    /\ qParam = NoValue
    /\ \E k \in { W_name, W_filename }, v \in QInner, n \in 0..MaxLayers, pad \in CdPads :
          qParam' = [key |-> k, inner |-> v, layers |-> n, pad |-> pad]
    /\ UNCHANGED qResult

\* ContentDisposition::parse is applied to its header
QParse ==
    /\ qParam # NoValue /\ qResult = NoValue
    /\ qResult' = Parse(QHeader(qParam))
    /\ UNCHANGED qParam

(***************************************************************************)
(* http::kernel::register_routes.                                          *)
(***************************************************************************)
\* the i-th middleware of a route
Mid(i) == [mid |-> i]

RoutePrefixes == { <<>>, << "/", "v" >> }
ControllerPaths == { <<>>, << "/", "u" >> }

\* struct Controller { path, handler }
Controllers == [path : ControllerPaths, handler : { "handler" }]

ControllerLists ==
    UNION { [1..n -> Controllers] : n \in 1..MaxControllers }

\* struct Route { prefix, middlewares, controllers }
Routes ==
    { [prefix |-> p, middlewares |-> [i \in 1..n |-> Mid(i)], controllers |-> cs] :
        p \in RoutePrefixes, n \in 0..MaxMiddlewares, cs \in ControllerLists }

\* web::scope(path) with its .wrap(..) calls in order and its .configure(handler)
Scope(path, wraps, handler) == [path |-> path, wraps |-> wraps, configure |-> handler]

\* the scope one iteration of the inner loop gives to config.service
ScopeOf(route, controller) ==
    LET path == route.prefix \o controller.path
        mids == route.middlewares
        total == Len(mids)
    IN  IF path = <<>>
        THEN Scope(<<>>, <<>>, controller.handler)
        ELSE IF total # 0
        THEN IF total = 1
             THEN Scope(path, << mids[1] >>, controller.handler)
             ELSE IF total = 2
             THEN Scope(path, << mids[1], mids[total] >>, controller.handler)
             ELSE Scope(path, << mids[1], mids[2], mids[total] >>, controller.handler)
        ELSE Scope(path, <<>>, controller.handler)

RInit ==
    /\ rRoute = NoValue
    /\ rCtl = 1
    /\ rDone = 0
    /\ rConfig = <<>>

\* `for route in routes`: the next route is taken
RNextRoute ==
    /\ rRoute = NoValue /\ rDone < MaxRoutes
    /\ \E route \in Routes : rRoute' = route
    /\ rCtl' = 1
    /\ UNCHANGED << rDone, rConfig >>

\* `for controller in &route.controllers`: one controller's scope is registered
RController ==
    /\ rRoute # NoValue /\ rCtl <= Len(rRoute.controllers)
    /\ rConfig' = Append(rConfig, ScopeOf(rRoute, rRoute.controllers[rCtl]))
    /\ rCtl' = rCtl + 1
    /\ UNCHANGED << rRoute, rDone >>

\* the inner loop is over
REndRoute ==
    /\ rRoute # NoValue /\ rCtl > Len(rRoute.controllers)
    /\ rRoute' = NoValue
    /\ rCtl' = 1
    /\ rDone' = rDone + 1
    /\ UNCHANGED rConfig

(***************************************************************************)
(* Bytes and text. A byte is an ASCII character or one of the two bytes of *)
(* the UTF-8 encoding of U+00E9; a decoded character is an ASCII           *)
(* character, "U+00E9" or the replacement character "U+FFFD".              *)
(***************************************************************************)
LeadByte == "0xC3"
ContByte == "0xA9"

\* String::from_utf8_lossy on one chunk
RECURSIVE FromUtf8Lossy(_)
FromUtf8Lossy(bytes) ==
    IF bytes = <<>> THEN <<>>
    ELSE IF Head(bytes) = LeadByte
         THEN IF Len(bytes) >= 2 /\ bytes[2] = ContByte
              THEN << "U+00E9" >> \o FromUtf8Lossy(SubSeq(bytes, 3, Len(bytes)))
              ELSE << "U+FFFD" >> \o FromUtf8Lossy(Tail(bytes))
    ELSE IF Head(bytes) = ContByte
         THEN << "U+FFFD" >> \o FromUtf8Lossy(Tail(bytes))
    ELSE << Head(bytes) >> \o FromUtf8Lossy(Tail(bytes))

UpperCase == << "A", "B", "C", "D", "E", "F", "G", "H", "I", "J", "K", "L", "M",
                "N", "O", "P", "Q", "R", "S", "T", "U", "V", "W", "X", "Y", "Z" >>
LowerCase == << "a", "b", "c", "d", "e", "f", "g", "h", "i", "j", "k", "l", "m",
                "n", "o", "p", "q", "r", "s", "t", "u", "v", "w", "x", "y", "z" >>

LowerChar(c) ==
    LET i == FindFrom(UpperCase, c, 1)
    IN  IF i = 0 THEN c ELSE LowerCase[i]

\* str::to_lowercase
ToLowercase(s) == [i \in 1..Len(s) |-> LowerChar(s[i])]

\* Vec::contains
Contains(list, x) == \E i \in 1..Len(list) : list[i] = x

(***************************************************************************)
(* The items of the underlying multipart stream.                           *)
(***************************************************************************)
\* a header of a part: missing, present but rejected by to_str(), or text
Absent == [hv |-> "absent"]
Opaque == [hv |-> "opaque"]
Text(s) == [hv |-> "text", s |-> s]

StreamError == [kind |-> "error"]
Part(cd, ct, chunks) == [kind |-> "part", cd |-> cd, ct |-> ct, chunks |-> chunks]

ChunkErr == Err("PayloadError")

Q(s) == << "\"" >> \o s \o << "\"" >>
Sep == << ";", " " >>
Eq == << "=" >>

W_a == << "a" >>
W_b == << "b" >>
W_f == << "f" >>
W_z == << "z" >>
W_p_jpg == << "p", ".", "j", "p", "g" >>
W_README == << "R", "E", "A", "D", "M", "E" >>
W_image_png == << "i", "m", "a", "g", "e", "/", "p", "n", "g" >>
W_IMAGE_PNG == << "I", "M", "A", "G", "E", "/", "P", "N", "G" >>
W_text_plain == << "t", "e", "x", "t", "/", "p", "l", "a", "i", "n" >>
W_jpg == << "j", "p", "g" >>
W_JPG == << "J", "P", "G" >>
W_png == << "p", "n", "g" >>
W_txt == << "t", "x", "t" >>

\* `form-data; name="n"`
HdrName(n) == Text(W_form_data \o Sep \o W_name \o Eq \o Q(n))
\* `form-data; name="n"; filename="fn"`
HdrFile(n, fn) ==
    Text(W_form_data \o Sep \o W_name \o Eq \o Q(n) \o Sep \o W_filename \o Eq \o Q(fn))
\* `form-data; filename="fn"`
HdrFilenameOnly(fn) == Text(W_form_data \o Sep \o W_filename \o Eq \o Q(fn))
\* `form-data`
HdrBare == Text(W_form_data)

TextParts ==
    { Part(HdrName(W_a), Absent, << Ok(<< "4" >>), Ok(<< "2" >>) >>),
      Part(HdrName(W_a), Absent, << Ok(<< " ", "7", " " >>) >>),
      Part(HdrName(W_a), Absent, << Ok(<< " ", " ", " " >>) >>),
      Part(HdrName(W_a), Absent, <<>>),
      Part(HdrName(W_a), Absent, << Ok(<< "4", "x" >>) >>),
      Part(HdrName(W_a), Absent, << Ok(<< "3", "0", "0" >>) >>),
      Part(HdrName(W_a), Absent, << Ok(<< "1" >>), ChunkErr, Ok(<< "2" >>) >>),
      Part(HdrName(W_a), Absent, << Ok(<< "x", LeadByte >>), Ok(<< ContByte >>) >>),
      Part(HdrName(W_b), Text(W_text_plain), << Ok(<< "-", "5" >>) >>) }

FileParts ==
    { Part(HdrFile(W_f, W_p_jpg), Text(W_image_png), << Ok(<< "a", "b" >>), Ok(<< "c" >>) >>),
      Part(HdrFile(W_a, W_README), Text(W_IMAGE_PNG), <<>>),
      Part(HdrFile(W_f, W_README), Text(W_text_plain), << Ok(<< "d" >>) >>),
      Part(HdrFile(W_f, W_p_jpg), Absent, << Ok(<< "a" >>) >>),
      Part(HdrFile(W_f, W_p_jpg), Opaque, << Ok(<< "a" >>) >>),
      Part(HdrFile(W_f, W_p_jpg), Text(W_image_png), << Ok(<< "a" >>), ChunkErr >>) }

NamelessParts ==
    { Part(HdrFilenameOnly(W_p_jpg), Text(W_image_png), << Ok(<< "a" >>) >>),
      Part(HdrBare, Absent, << Ok(<< "a" >>) >>),
      Part(Absent, Absent, << Ok(<< "a" >>) >>),
      Part(Opaque, Absent, << Ok(<< "a" >>) >>) }

Parts == TextParts \cup FileParts \cup NamelessParts

(***************************************************************************)
(* MultipartError and ErrorMessage values (result.rs, file_validator.rs).  *)
(***************************************************************************)
NtexError == [kind |-> "NtexError"]
NoContentType(msg) == [kind |-> "NoContentType", msg |-> msg]
MissingDataField(field) == [kind |-> "MissingDataField", field |-> field]
ParseErrorEmpty(field, ty) ==
    [kind |-> "ParseError", msg |-> "is empty and cannot be parsed", field |-> field, ty |-> ty]
ParseErrorFailed(field, value, ty, e) ==
    [kind |-> "ParseError", msg |-> "Failed to parse", field |-> field,
     value |-> value, ty |-> ty, e |-> e]
ValidationError(input_error) == [kind |-> "ValidationError", input |-> input_error]

InputError(name, error) == [name |-> name, error |-> error]
NoFiles == [m |-> "NoFiles"]
FileTooSmall(n) == [m |-> "FileTooSmall", n |-> n]
FileTooLarge(n) == [m |-> "FileTooLarge", n |-> n]
TooFewFiles(n) == [m |-> "TooFewFiles", n |-> n]
TooManyFiles(n) == [m |-> "TooManyFiles", n |-> n]
InvalidFileExtension(ext) == [m |-> "InvalidFileExtension", ext |-> ext]
InvalidContentType(allowed) == [m |-> "InvalidContentType", allowed |-> allowed]
MissingFileExtension(file_name) == [m |-> "MissingFileExtension", file_name |-> file_name]

(***************************************************************************)
(* FileInput (file_input.rs).                                              *)
(***************************************************************************)
\* index of the last c in s, 0 when there is none
RECURSIVE FindLast(_, _, _)
FindLast(s, c, i) ==
    IF i = 0 THEN 0
    ELSE IF s[i] = c THEN i ELSE FindLast(s, c, i - 1)

\* FileExtHelper::get_extension: the text after the last `.`, if there is a `.`
GetExtension(name) ==
    LET i == FindLast(name, ".", Len(name))
    IN  IF i = 0 THEN None ELSE Some(SubSeq(name, i + 1, Len(name)))

\* variant of GetContentType: a missing or unreadable header gives a default type
GetContentTypeDefaulted(ct) ==
    IF ct.hv = "text" THEN Ok(ct.s)
    ELSE Ok(<< "a", "p", "p", "l", "i", "c", "a", "t", "i", "o", "n", "/",
               "o", "c", "t", "e", "t", "-", "s", "t", "r", "e", "a", "m" >>)

\* FileInput::get_content_type
GetContentType(ct) ==
    IF ct.hv = "absent" THEN Err(NoContentType("Empty content type"))
    ELSE IF ct.hv = "opaque" THEN Err(NoContentType("ToStrError"))
    ELSE Ok(ct.s)

\* FileInput::create
FileInputCreate(ct, cd) ==
    LET content_type == GetContentType(ct)
        variables == cd.variables
    IN  IF IsErr(content_type) THEN content_type
        ELSE IF W_name \notin DOMAIN variables THEN Panic
        ELSE IF W_filename \notin DOMAIN variables THEN Panic
        ELSE Ok([ extension |-> GetExtension(variables[W_filename]),
                  content_type |-> content_type.v,
                  size |-> 0,
                  bytes |-> <<>>,
                  file_name |-> variables[W_filename],
                  field_name |-> variables[W_name],
                  content_disposition |-> cd ])

RECURSIVE SumLen(_)
SumLen(bytes) ==
    IF bytes = <<>> THEN 0 ELSE Len(Head(bytes)) + SumLen(Tail(bytes))

\* FileInput::calculate_size
CalculateSize(file) == SumLen(file.bytes)

(***************************************************************************)
(* Validator (file_validator.rs).                                          *)
(***************************************************************************)
\* variant of ValidateFile: the two size bounds are exclusive
ValidateFileExclusive(rule, file) ==
    IF rule.extension_required /\ ~file.extension.some
    THEN Err(InputError(file.field_name, MissingFileExtension(file.file_name)))
    ELSE IF rule.min_size.some /\ file.size <= rule.min_size.v
    THEN Err(InputError(file.field_name, FileTooSmall(rule.min_size.v)))
    ELSE IF rule.max_size.some /\ file.size >= rule.max_size.v
    THEN Err(InputError(file.field_name, FileTooLarge(rule.max_size.v)))
    ELSE IF rule.allowed_extensions.some /\ file.extension.some
            /\ ~Contains(rule.allowed_extensions.v, ToLowercase(file.extension.v))
    THEN Err(InputError(file.field_name, InvalidFileExtension(file.extension)))
    ELSE IF rule.allowed_extensions.some /\ ~file.extension.some
    THEN Err(InputError(file.field_name, MissingFileExtension(file.file_name)))
    ELSE IF rule.allowed_content_types.some
            /\ ~Contains(rule.allowed_content_types.v, ToLowercase(file.content_type))
    THEN Err(InputError(file.field_name, InvalidContentType(rule.allowed_content_types.v)))
    ELSE Ok(Unit)

\* Validator::validate_file
ValidateFile(rule, file) ==
    IF rule.extension_required /\ ~file.extension.some
    THEN Err(InputError(file.field_name, MissingFileExtension(file.file_name)))
    ELSE IF rule.min_size.some /\ file.size < rule.min_size.v
    THEN Err(InputError(file.field_name, FileTooSmall(rule.min_size.v)))
    ELSE IF rule.max_size.some /\ file.size > rule.max_size.v
    THEN Err(InputError(file.field_name, FileTooLarge(rule.max_size.v)))
    ELSE IF rule.allowed_extensions.some /\ file.extension.some
            /\ ~Contains(rule.allowed_extensions.v, ToLowercase(file.extension.v))
    THEN Err(InputError(file.field_name, InvalidFileExtension(file.extension)))
    ELSE IF rule.allowed_extensions.some /\ ~file.extension.some
    THEN Err(InputError(file.field_name, MissingFileExtension(file.file_name)))
    ELSE IF rule.allowed_content_types.some
            /\ ~Contains(rule.allowed_content_types.v, ToLowercase(file.content_type))
    THEN Err(InputError(file.field_name, InvalidContentType(rule.allowed_content_types.v)))
    ELSE Ok(Unit)

\* the `for file in files` loop of validate_files
RECURSIVE ValidateEach(_, _)
ValidateEach(rules, files) ==
    IF files = <<>> THEN Ok(Unit)
    ELSE LET r == ValidateFile(rules, Head(files))
         IN  IF IsErr(r) THEN r ELSE ValidateEach(rules, Tail(files))

\* file_count < rules.min_files.unwrap_or(0)
BelowMinFiles(file_count, rules) ==
    file_count < (IF rules.min_files.some THEN rules.min_files.v ELSE 0)

\* file_count > rules.max_files.unwrap_or(usize::MAX): no count exceeds usize::MAX
AboveMaxFiles(file_count, rules) ==
    IF rules.max_files.some THEN file_count > rules.max_files.v ELSE FALSE

\* what validate_files returns when `files` is None
ValidateAbsent(field_name, rules) ==
    IF rules.required THEN Err(InputError(field_name, NoFiles)) ELSE Ok(Unit)

\* Validator::validate_files; files is an Option<&Vec<FileInput>>
ValidateFiles(field_name, files, rules) ==
    IF ~files.some THEN ValidateAbsent(field_name, rules)
    ELSE LET file_count == Len(files.v)
         IN  IF rules.required /\ file_count = 0
             THEN Err(InputError(field_name, NoFiles))
             ELSE IF BelowMinFiles(file_count, rules)
             THEN Err(InputError(field_name, TooFewFiles(file_count)))
             ELSE IF AboveMaxFiles(file_count, rules)
             THEN Err(InputError(field_name, TooManyFiles(file_count)))
             ELSE ValidateEach(rules, files.v)

\* Validator::validate: the rules are visited in the HashMap's iteration order and
\* the first failure is returned, so any failing field's error can be the result
ValidateOutcomes(validator, files) ==
    LET failing == { f \in DOMAIN validator :
                        IsErr(ValidateFiles(f, MapGet(files, f), validator[f])) }
    IN  IF failing = {} THEN { Ok(Unit) }
        ELSE { Err(ValidationError(ValidateFiles(f, MapGet(files, f), validator[f]).v)) :
                 f \in failing }

\* the orders in which `for (field_name, rules) in &self.rules` can visit the rules
IterationOrders(validator) ==
    { o \in [1..Cardinality(DOMAIN validator) -> DOMAIN validator] :
        \A i, j \in DOMAIN o : o[i] = o[j] => i = j }

\* variant of ValidateInOrder: only the rule visited first is checked
RECURSIVE ValidateFirstVisited(_, _, _)
ValidateFirstVisited(order, validator, files) ==
    IF order = <<>> THEN Ok(Unit)
    ELSE LET r == ValidateFiles(Head(order), MapGet(files, Head(order)), validator[Head(order)])
         IN  IF IsErr(r) THEN Err(ValidationError(r.v)) ELSE Ok(Unit)

\* Validator::validate visiting the rules in the given order: the first failure is
\* wrapped in MultipartError::ValidationError and returned by `?`
RECURSIVE ValidateInOrder(_, _, _)
ValidateInOrder(order, validator, files) ==
    IF order = <<>> THEN Ok(Unit)
    ELSE LET r == ValidateFiles(Head(order), MapGet(files, Head(order)), validator[Head(order)])
         IN  IF IsErr(r) THEN Err(ValidationError(r.v))
             ELSE ValidateInOrder(Tail(order), validator, files)

\* str::replace("_", " ")
ReplaceUnderscores(s) == [i \in 1..Len(s) |-> IF s[i] = "_" THEN " " ELSE s[i]]

\* FileInput::format_size, which hands the number to the foxtive crate: kept as the
\* number under its formatter
FormatSize(n) == [format_size |-> n]

\* <MultipartError as Display>::fmt for MultipartError::ValidationError(err): the
\* pieces of the text, in order
DisplayValidationError(err) ==
    LET field_name == ReplaceUnderscores(err.name)
        e == err.error
    IN  CASE e.m = "NoFiles" ->
               << "No files were uploaded for field: '", field_name, "'" >>
          [] e.m = "FileTooSmall" ->
               << "File size is too small for field '", field_name,
                  "'. Minimum size is ", FormatSize(e.n) >>
          [] e.m = "FileTooLarge" ->
               << "File size is too big for field '", field_name,
                  "'. Maximum size is ", FormatSize(e.n) >>
          [] e.m = "TooFewFiles" ->
               << "Too few files uploaded for field '", field_name,
                  "'. Minimum is ", e.n >>
          [] e.m = "TooManyFiles" ->
               << "Too many files uploaded for field '", field_name,
                  "'. Maximum is ", e.n >>
          [] e.m = "InvalidFileExtension" ->
               << "Invalid file extension for field '", field_name, "': .",
                  IF e.ext.some THEN e.ext.v ELSE <<>> >>
          [] e.m = "InvalidContentType" ->
               << "Invalid mime type: ", e.allowed >>
          [] e.m = "MissingFileExtension" ->
               << "Invalid file, file extension is required: ", e.file_name >>

\* FileRules::default()
DefaultRules ==
    [ required |-> FALSE, extension_required |-> FALSE,
      min_size |-> None, max_size |-> None,
      allowed_extensions |-> None, allowed_content_types |-> None,
      min_files |-> None, max_files |-> None ]

(***************************************************************************)
(* Multipart::process (multipart.rs), one stream item at a time.           *)
(***************************************************************************)
\* variant of MapPush: the new entry is put in front of the list
MapPushFront(m, k, x) ==
    MapInsert(m, k, IF k \in DOMAIN m THEN << x >> \o m[k] ELSE << x >>)

\* entry(k).or_default().push(x)
MapPush(m, k, x) ==
    MapInsert(m, k, IF k \in DOMAIN m THEN Append(m[k], x) ELSE << x >>)

\* Multipart::collect_data_field_value: failed chunks are passed over
RECURSIVE CollectDataFieldValue(_)
CollectDataFieldValue(chunks) ==
    IF chunks = <<>> THEN <<>>
    ELSE IF IsOk(Head(chunks))
         THEN FromUtf8Lossy(Head(chunks).v) \o CollectDataFieldValue(Tail(chunks))
         ELSE CollectDataFieldValue(Tail(chunks))

\* variant of CollectFileChunks: total_size counts the chunks, not their bytes
RECURSIVE CollectFileChunksCounted(_, _, _)
CollectFileChunksCounted(chunks, total_size, bytes) ==
    IF chunks = <<>> THEN Ok([total_size |-> total_size, bytes |-> bytes])
    ELSE IF IsErr(Head(chunks)) THEN Panic
    ELSE CollectFileChunksCounted(Tail(chunks), total_size + 1,
                                  Append(bytes, Head(chunks).v))

\* the `while let Some(chunk) = field.next().await` loop of a file part:
\* chunk.unwrap() panics on a failed chunk
RECURSIVE CollectFileChunks(_, _, _)
CollectFileChunks(chunks, total_size, bytes) ==
    IF chunks = <<>> THEN Ok([total_size |-> total_size, bytes |-> bytes])
    ELSE IF IsErr(Head(chunks)) THEN Panic
    ELSE CollectFileChunks(Tail(chunks), total_size + Len(Head(chunks).v),
                           Append(bytes, Head(chunks).v))

\* variant of HasNameField: a part is skipped only when it has neither parameter
HasNameFieldOrFilename(cd) == cd.has_name_field \/ cd.is_file_field

\* ContentDisposition::has_name_field
HasNameField(cd) == cd.has_name_field

\* ContentDisposition::is_file_field
IsFileField(cd) == cd.is_file_field

\* the name a text part is stored under
DataFieldName(cd) ==
    LET n == GetVariable(cd, W_name) IN IF n.some THEN n.v ELSE <<>>

\* variant of DataInputOf: the DataInput does not carry the name it is stored under
DataInputOfUnnamed(cd, chunks) ==
    [value |-> CollectDataFieldValue(chunks), name |-> <<>>]

\* the DataInput a text part gives
DataInputOf(cd, chunks) ==
    [value |-> CollectDataFieldValue(chunks), name |-> DataFieldName(cd)]

\* One iteration of the loop of process on a part: what becomes of the two maps and
\* how the iteration ends ("continue", "error" with the error returned, or "panic").
HandlePart(p, data, files) ==
    LET skip == [how |-> "continue", data |-> data, files |-> files, created |-> 0,
                 err |-> NoValue]
    IN  IF p.cd.hv # "text" THEN skip
        ELSE LET cd == Create(p.cd.s)
             IN  IF ~HasNameField(cd) THEN skip
                 ELSE IF ~IsFileField(cd)
                 THEN [skip EXCEPT !.data =
                          MapPush(data, DataFieldName(cd), DataInputOf(cd, p.chunks))]
                 ELSE LET info == FileInputCreate(p.ct, cd)
                      IN  IF info.tag = "panic"
                          THEN [skip EXCEPT !.how = "panic", !.created = 1]
                          ELSE IF IsErr(info)
                          THEN [skip EXCEPT !.how = "error", !.created = 1, !.err = info.v]
                          ELSE LET got == CollectFileChunks(p.chunks, 0, <<>>)
                               IN  IF got.tag = "panic"
                                   THEN [skip EXCEPT !.how = "panic", !.created = 1]
                                   ELSE [skip EXCEPT
                                           !.created = 1,
                                           !.files = MapPush(files, info.v.field_name,
                                              [info.v EXCEPT !.size = got.v.total_size,
                                                             !.bytes = got.v.bytes])]

(***************************************************************************)
(* Accessors and typed coercion (multipart.rs, contract.rs, macros.rs).    *)
(* The target type T is i8.                                                *)
(***************************************************************************)
I8Min == -128
I8Max == 127
TypeName == "i8"

Digits == << "0", "1", "2", "3", "4", "5", "6", "7", "8", "9" >>

\* char::to_digit(10), -1 when the character is no digit
ToDigit(c) == FindFrom(Digits, c, 1) - 1

RECURSIVE Accumulate(_, _, _)
Accumulate(digits, result, positive) ==
    IF digits = <<>> THEN Ok(result)
    ELSE LET x == ToDigit(Head(digits))
             mul == result * 10
             next == IF positive THEN mul + x ELSE mul - x
             overflow == IF positive THEN "PosOverflow" ELSE "NegOverflow"
         IN  IF x < 0 THEN Err("InvalidDigit")
             ELSE IF mul < I8Min \/ mul > I8Max THEN Err(overflow)
             ELSE IF next < I8Min \/ next > I8Max THEN Err(overflow)
             ELSE Accumulate(Tail(digits), next, positive)

\* <i8 as FromStr>::from_str
ParseT(src) ==
    IF src = <<>> THEN Err("Empty")
    ELSE IF src = << "+" >> \/ src = << "-" >> THEN Err("InvalidDigit")
    ELSE IF Head(src) = "+" THEN Accumulate(Tail(src), 0, TRUE)
    ELSE IF Head(src) = "-" THEN Accumulate(Tail(src), 0, FALSE)
    ELSE Accumulate(src, 0, TRUE)

\* variant of FirstData: the last occurrence of the field is taken
FirstDataLast(data, field) ==
    IF field \in DOMAIN data /\ data[field] # <<>>
    THEN Some(data[field][Len(data[field])]) ELSE None

\* Multipart::first_data
FirstData(data, field) ==
    IF field \in DOMAIN data /\ data[field] # <<>> THEN Some(data[field][1]) ELSE None

\* Multipart::first_data_required
FirstDataRequired(data, field) ==
    LET d == FirstData(data, field)
    IN  IF d.some THEN Ok(d.v) ELSE Err(MissingDataField(field))

\* the value handed to T's parse routine
TrimmedValue(data_input) == Trim(data_input.value)

\* PostParseableFromStr::parse_from_multipart_str, as impl_post_parseable_from_str! defines it
ParseFromMultipartStr(data, field) ==
    LET data_input == FirstDataRequired(data, field)
    IN  IF IsErr(data_input) THEN data_input
        ELSE LET value == TrimmedValue(data_input.v)
                 parsed == ParseT(value)
             IN  IF value = <<>> THEN Err(ParseErrorEmpty(field, TypeName))
                 ELSE IF IsErr(parsed)
                 THEN Err(ParseErrorFailed(field, value, TypeName, parsed.v))
                 ELSE parsed

\* variant of ParseFromMultipartOption: an unparsable value is reported as absent
ParseFromMultipartOptionLenient(data, field) ==
    LET data_input == FirstData(data, field)
    IN  IF data_input.some
        THEN LET value == TrimmedValue(data_input.v)
                 parsed == ParseT(value)
             IN  IF value = <<>> \/ IsErr(parsed) THEN Ok(None)
                 ELSE Ok(Some(parsed.v))
        ELSE Ok(None)

\* <Option<T> as PostParseable>::parse_from_multipart
ParseFromMultipartOption(data, field) ==
    LET data_input == FirstData(data, field)
    IN  IF data_input.some
        THEN LET value == TrimmedValue(data_input.v)
                 parsed == ParseT(value)
             IN  IF value = <<>> THEN Ok(None)
                 ELSE IF IsErr(parsed)
                 THEN Err(ParseErrorFailed(field, value, TypeName, parsed.v))
                 ELSE Ok(Some(parsed.v))
        ELSE Ok(None)

\* Multipart::post::<T>
Post(data, field) == ParseFromMultipartStr(data, field)

\* Multipart::post::<Option<T>>
PostOption(data, field) == ParseFromMultipartOption(data, field)

\* variant of PostOr: unwrap_or_default() in place of unwrap_or(default)
PostOrTypeDefault(data, field, default) ==
    LET r == Post(data, field) IN IF IsOk(r) THEN r.v ELSE 0

\* Multipart::post_or::<T>: self.post(field).unwrap_or(default)
PostOr(data, field, default) ==
    LET r == Post(data, field) IN IF IsOk(r) THEN r.v ELSE default

\* variant of PostOpt: Some(self.post(field).unwrap_or_default())
PostOptSomeDefault(data, field) ==
    LET r == Post(data, field) IN IF IsOk(r) THEN Some(r.v) ELSE Some(0)

\* Multipart::post_opt::<T>: self.post(field).ok()
PostOpt(data, field) ==
    LET r == Post(data, field) IN IF IsOk(r) THEN Some(r.v) ELSE None

\* a type registered with impl_post_parseable_for_custom_type!: CustomId(u64), whose
\* from_str is `Ok(CustomId(s.parse()?))`
CustomTypeName == "CustomId"

RECURSIVE AccumulateUnsigned(_, _)
AccumulateUnsigned(digits, result) ==
    IF digits = <<>> THEN Ok(result)
    ELSE IF ToDigit(Head(digits)) < 0 THEN Err("InvalidDigit")
    ELSE AccumulateUnsigned(Tail(digits), result * 10 + ToDigit(Head(digits)))

\* <u64 as FromStr>::from_str on the short values of the model, none of which
\* overflows: a leading `-` is no digit of an unsigned number
ParseU64(src) ==
    IF src = <<>> THEN Err("Empty")
    ELSE IF src = << "+" >> \/ src = << "-" >> THEN Err("InvalidDigit")
    ELSE IF Head(src) = "+" THEN AccumulateUnsigned(Tail(src), 0)
    ELSE AccumulateUnsigned(src, 0)

\* <CustomId as FromStr>::from_str
ParseCustomId(src) ==
    LET n == ParseU64(src) IN IF IsOk(n) THEN Ok([CustomId |-> n.v]) ELSE n

\* parse_from_multipart_str as impl_post_parseable_for_custom_type! defines it
ParseFromMultipartStrCustom(data, field) ==
    LET data_input == FirstDataRequired(data, field)
    IN  IF IsErr(data_input) THEN data_input
        ELSE LET value == TrimmedValue(data_input.v)
                 parsed == ParseCustomId(value)
             IN  IF value = <<>> THEN Err(ParseErrorEmpty(field, CustomTypeName))
                 ELSE IF IsErr(parsed)
                 THEN Err(ParseErrorFailed(field, value, CustomTypeName, parsed.v))
                 ELSE parsed

\* Multipart::post::<CustomId>
PostCustom(data, field) == ParseFromMultipartStrCustom(data, field)

\* Multipart::first_file
FirstFile(files, field) ==
    IF field \in DOMAIN files /\ files[field] # <<>> THEN Some(files[field][1]) ELSE None

\* Multipart::has_file
HasFile(files, field) == field \in DOMAIN files

(***************************************************************************)
(* The application using one Multipart: it calls process or validate,      *)
(* which drain the stream item by item, and reads fields in between.       *)
(***************************************************************************)
NoCaller == [fn |-> "none", validator |-> EmptyMap]

Rules(f, r) == [x \in {f} |-> r]

\* the validators the application passes to validate
Validators ==
    { EmptyMap,
      Rules(W_f, [DefaultRules EXCEPT !.min_files = Some(1), !.max_files = Some(5)]),
      Rules(W_f, [DefaultRules EXCEPT !.min_files = Some(2)]),
      Rules(W_f, [DefaultRules EXCEPT !.required = TRUE, !.max_size = Some(2),
                                      !.allowed_extensions = Some(<< W_jpg >>)]),
      [x \in {W_f, W_a} |->
          IF x = W_f THEN [DefaultRules EXCEPT !.max_files = Some(1)]
          ELSE [DefaultRules EXCEPT !.extension_required = TRUE]],
      [x \in {W_f, W_a} |-> [DefaultRules EXCEPT !.required = TRUE]] }

\* the field names the application asks for, and the defaults it passes to post_or
Fields == { W_a, W_b, W_z }
Defaults == { -1, 42 }

Returned(op, arg, res) == [op |-> op, arg |-> arg, res |-> res]

\* no call has returned since the last call of process or validate began
NoReturn == Returned("none", <<>>, NoValue)

MPInit ==
    /\ pc = "idle"
    /\ caller = NoCaller
    /\ streamState = "open"
    /\ delivered = <<>>
    /\ data_inputs = EmptyMap
    /\ file_inputs = EmptyMap
    /\ createCalls = 0
    /\ endsSeen = 0
    /\ ret = NoReturn

\* multipart.process().await is called
CallProcess ==
    /\ pc = "idle"
    /\ pc' = "running"
    /\ caller' = [fn |-> "process", validator |-> EmptyMap]
    /\ ret' = NoReturn
    /\ UNCHANGED << streamState, delivered, data_inputs, file_inputs, createCalls, endsSeen >>

\* multipart.validate(validator).await is called: it starts with self.process().await?
CallValidate ==
    /\ pc = "idle"
    /\ \E v \in Validators :
          caller' = [fn |-> "validate", validator |-> v]
    /\ pc' = "running"
    /\ ret' = NoReturn
    /\ UNCHANGED << streamState, delivered, data_inputs, file_inputs, createCalls, endsSeen >>

\* variant of FinishOutcomes: validate returns as process does, the validator is not run
FinishOutcomesUnchecked == { Ok("self") }

\* what the running call returns once process has returned Ok(self)
FinishOutcomes ==
    IF caller.fn = "process" THEN { Ok("self") }
    ELSE { IF IsOk(r) THEN Ok("self") ELSE r :
             r \in ValidateOutcomes(caller.validator, file_inputs) }

\* self.multipart.next().await yields None: the loop ends and process returns Ok(self)
NextNone ==
    /\ pc = "running"
    /\ streamState' = IF streamState = "open" THEN "ended" ELSE streamState
    /\ \E r \in FinishOutcomes : ret' = Returned(caller.fn, caller.validator, r)
    /\ endsSeen' = IF endsSeen < MaxEnds THEN endsSeen + 1 ELSE endsSeen
    /\ pc' = "idle"
    /\ caller' = NoCaller
    /\ UNCHANGED << delivered, data_inputs, file_inputs, createCalls >>

\* variant of NextError: the failed item is passed over and the loop goes on
NextErrorPassedOver ==
    /\ pc = "running"
    /\ streamState = "open"
    /\ Len(delivered) < MaxParts
    /\ delivered' = Append(delivered, StreamError)
    /\ UNCHANGED << pc, caller, ret, streamState, data_inputs, file_inputs, createCalls, endsSeen >>

\* self.multipart.next().await yields Some(Err(e)): process returns NtexError(e)
NextError ==
    /\ pc = "running"
    /\ \/ /\ streamState = "open"
          /\ Len(delivered) < MaxParts
          /\ delivered' = Append(delivered, StreamError)
       \/ /\ streamState = "failed"
          /\ UNCHANGED delivered
    /\ streamState' = "failed"
    /\ ret' = Returned(caller.fn, caller.validator, Err(NtexError))
    /\ pc' = "idle"
    /\ caller' = NoCaller
    /\ UNCHANGED << data_inputs, file_inputs, createCalls, endsSeen >>

\* variant of NextPart: the stream yields parts again after it has reported its end
NextPartAfterEnd ==
    /\ pc = "running"
    /\ streamState \in { "open", "ended" }
    /\ Len(delivered) < MaxParts
    /\ \E p \in Parts :
          LET h == HandlePart(p, data_inputs, file_inputs)
          IN  /\ delivered' = Append(delivered, p)
              /\ data_inputs' = h.data
              /\ file_inputs' = h.files
              /\ createCalls' = createCalls + h.created
              /\ pc' = CASE h.how = "continue" -> "running"
                         [] h.how = "error" -> "idle"
                         [] OTHER -> "panicked"
              /\ caller' = IF h.how = "continue" THEN caller ELSE NoCaller
              /\ ret' = IF h.how = "error"
                        THEN Returned(caller.fn, caller.validator, Err(h.err))
                        ELSE ret
    /\ UNCHANGED << streamState, endsSeen >>

\* self.multipart.next().await yields Some(Ok(field)): one iteration of the loop
NextPart ==
    /\ pc = "running"
    /\ streamState = "open"
    /\ Len(delivered) < MaxParts
    /\ \E p \in Parts :
          LET h == HandlePart(p, data_inputs, file_inputs)
          IN  /\ delivered' = Append(delivered, p)
              /\ data_inputs' = h.data
              /\ file_inputs' = h.files
              /\ createCalls' = createCalls + h.created
              /\ pc' = CASE h.how = "continue" -> "running"
                         [] h.how = "error" -> "idle"
                         [] OTHER -> "panicked"
              /\ caller' = IF h.how = "continue" THEN caller ELSE NoCaller
              /\ ret' = IF h.how = "error"
                        THEN Returned(caller.fn, caller.validator, Err(h.err))
                        ELSE ret
    /\ UNCHANGED << streamState, endsSeen >>

\* multipart.post::<T>(field)
CallPost ==
    /\ pc = "idle"
    /\ \E f \in Fields : ret' = Returned("post", f, Post(data_inputs, f))
    /\ UNCHANGED << pc, caller, streamState, delivered, data_inputs, file_inputs, createCalls, endsSeen >>

\* multipart.post::<Option<T>>(field)
CallPostOption ==
    /\ pc = "idle"
    /\ \E f \in Fields : ret' = Returned("post_option", f, PostOption(data_inputs, f))
    /\ UNCHANGED << pc, caller, streamState, delivered, data_inputs, file_inputs, createCalls, endsSeen >>

\* multipart.post_or::<T>(field, default)
CallPostOr ==
    /\ pc = "idle"
    /\ \E f \in Fields, d \in Defaults :
          ret' = Returned("post_or", [field |-> f, default |-> d], PostOr(data_inputs, f, d))
    /\ UNCHANGED << pc, caller, streamState, delivered, data_inputs, file_inputs, createCalls, endsSeen >>

\* multipart.post_opt::<T>(field)
CallPostOpt ==
    /\ pc = "idle"
    /\ \E f \in Fields : ret' = Returned("post_opt", f, PostOpt(data_inputs, f))
    /\ UNCHANGED << pc, caller, streamState, delivered, data_inputs, file_inputs, createCalls, endsSeen >>

\* multipart.post::<CustomId>(field)
CallPostCustom ==
    /\ pc = "idle"
    /\ \E f \in Fields : ret' = Returned("post_custom", f, PostCustom(data_inputs, f))
    /\ UNCHANGED << pc, caller, streamState, delivered, data_inputs, file_inputs,
                    createCalls, endsSeen >>

(***************************************************************************)
(* Validator::validate_files applied to generated rules and files.         *)
(***************************************************************************)
RuleSet ==
    [ required : BOOLEAN, extension_required : BOOLEAN,
      min_size : { None, Some(2) }, max_size : { None, Some(2), Some(3) },
      allowed_extensions : { None, Some(<< W_jpg, W_png >>), Some(<< W_JPG >>) },
      allowed_content_types : { None, Some(<< W_image_png >>) },
      min_files : { None, Some(1), Some(2) }, max_files : { None, Some(1) } ]

File(file_name, size, extension, content_type) ==
    [ extension |-> extension, content_type |-> content_type, size |-> size,
      bytes |-> <<>>, file_name |-> file_name, field_name |-> W_f,
      content_disposition |-> Create(<<>>) ]

FileSet ==
    { File(W_p_jpg, 2, Some(W_jpg), W_image_png),
      File(W_p_jpg, 1, Some(W_JPG), W_IMAGE_PNG),
      File(W_README, 3, None, W_text_plain),
      File(W_p_jpg, 2, Some(W_txt), W_image_png),
      File(W_p_jpg, 4, Some(W_png), W_image_png) }

ValInit ==
    /\ vRules = NoValue
    /\ vFiles = None
    /\ vResult = NoValue
    /\ vMessage = NoValue

\* the rules under test are chosen
VPickRules ==
    /\ vRules = NoValue
    /\ \E r \in RuleSet : vRules' = r
    /\ UNCHANGED << vFiles, vResult, vMessage >>

\* the field is present in the file map, with no file yet
VPresent ==
    /\ vRules # NoValue /\ vResult = NoValue
    /\ ~vFiles.some
    /\ vFiles' = Some(<<>>)
    /\ UNCHANGED << vRules, vResult, vMessage >>

\* one more file under the field
VAddFile ==
    /\ vRules # NoValue /\ vResult = NoValue
    /\ vFiles.some
    /\ Len(vFiles.v) < MaxFiles
    /\ \E g \in FileSet : vFiles' = Some(Append(vFiles.v, g))
    /\ UNCHANGED << vRules, vResult, vMessage >>

\* Validator::validate_files is applied
VValidate ==
    /\ vRules # NoValue /\ vResult = NoValue
    /\ vResult' = ValidateFiles(W_f, vFiles, vRules)
    /\ UNCHANGED << vRules, vFiles, vMessage >>

\* the error is wrapped in MultipartError::ValidationError and formatted with Display
VDisplay ==
    /\ vResult # NoValue /\ vMessage = NoValue
    /\ IsErr(vResult)
    /\ vMessage' = DisplayValidationError(vResult.v)
    /\ UNCHANGED << vRules, vFiles, vResult >>

(***************************************************************************)
(* HttpError (foxtive-ntex error.rs): the status code and the response of  *)
(* an error. The AppError and AppMessage variants, whose status is decided *)
(* by the foxtive crate, are not generated.                                *)
(***************************************************************************)
BAD_REQUEST == 400
UNSUPPORTED_MEDIA_TYPE == 415
INTERNAL_SERVER_ERROR == 500

NoFile == [kind |-> "NoFile"]
IoError == [kind |-> "IoError"]
InvalidContentDisposition == [kind |-> "InvalidContentDisposition"]

\* the ErrorMessage values of generated validation errors
ErrorMessages ==
    { NoFiles, FileTooSmall(2), FileTooLarge(3), TooFewFiles(0), TooManyFiles(2),
      InvalidFileExtension(None), InvalidFileExtension(Some(W_jpg)),
      InvalidContentType(<< W_image_png >>), MissingFileExtension(W_README) }

\* the MultipartError values generated, every variant among them
MultipartErrors ==
    { NoFile, IoError, NoContentType("Empty content type"),
      ParseErrorEmpty(W_a, TypeName), MissingDataField(W_a),
      InvalidContentDisposition, NtexError }
      \cup { ValidationError(InputError(n, m)) : n \in { W_f, W_a }, m \in ErrorMessages }

HttpStd == [variant |-> "Std"]
HttpPayloadError == [variant |-> "PayloadError"]
HttpUtf8Error == [variant |-> "Utf8Error"]
HttpValidationError == [variant |-> "ValidationError"]
HttpMultipartError(err) == [variant |-> "MultipartError", err |-> err]

HttpErrors ==
    { HttpStd, HttpPayloadError, HttpUtf8Error, HttpValidationError }
      \cup { HttpMultipartError(e) : e \in MultipartErrors }

\* variant of StatusCodeOf: every validation error is 415
StatusCodeOfAnyValidation(err) ==
    IF err.variant \in { "ValidationError", "PayloadError" } THEN BAD_REQUEST
    ELSE IF err.variant = "MultipartError"
    THEN IF err.err.kind = "ValidationError" THEN UNSUPPORTED_MEDIA_TYPE
         ELSE BAD_REQUEST
    ELSE INTERNAL_SERVER_ERROR

\* <HttpError as WebResponseError>::status_code
StatusCodeOf(err) ==
    IF err.variant \in { "ValidationError", "PayloadError" } THEN BAD_REQUEST
    ELSE IF err.variant = "MultipartError"
    THEN IF err.err.kind = "ValidationError"
         THEN IF err.err.input.error.m \in { "InvalidFileExtension", "InvalidContentType" }
              THEN UNSUPPORTED_MEDIA_TYPE
              ELSE BAD_REQUEST
         ELSE BAD_REQUEST
    ELSE INTERNAL_SERVER_ERROR

\* the status a ResponseCode stands for
ResponseCodeStatus(code) ==
    IF code = "BadRequest" THEN BAD_REQUEST ELSE INTERNAL_SERVER_ERROR

\* Responder::send_msg(data, code, msg)
SendMsg(code, msg) == [status |-> ResponseCodeStatus(code), message |-> msg]

\* variant of MakeHttpErrorResponse: a MultipartError is answered with its status_code
MakeHttpErrorResponseByStatus(err) ==
    IF err.variant = "ValidationError" THEN SendMsg("BadRequest", "Validation Error")
    ELSE IF err.variant = "PayloadError" THEN SendMsg("BadRequest", "Payload Error")
    ELSE IF err.variant = "MultipartError"
    THEN [status |-> StatusCodeOf(err), message |-> "File Upload Error"]
    ELSE SendMsg("InternalServerError", "Internal Server Error")

\* helpers::make_http_error_response; the `_` arm answers with the response of
\* AppMessage::InternalServerError
MakeHttpErrorResponse(err) ==
    IF err.variant = "ValidationError" THEN SendMsg("BadRequest", "Validation Error")
    ELSE IF err.variant = "PayloadError" THEN SendMsg("BadRequest", "Payload Error")
    ELSE IF err.variant = "MultipartError" THEN SendMsg("BadRequest", "File Upload Error")
    ELSE SendMsg("InternalServerError", "Internal Server Error")

\* <HttpError as WebResponseError>::error_response
ErrorResponse(err) == MakeHttpErrorResponse(err)

HInit ==
    /\ hErr = NoValue
    /\ hStatus = None
    /\ hResp = NoValue

\* a handler fails with an HttpError
HRaise ==
    /\ hErr = NoValue
    /\ \E e \in HttpErrors : hErr' = e
    /\ UNCHANGED << hStatus, hResp >>

\* the framework asks the error for its status code
HStatusCode ==
    /\ hErr # NoValue /\ ~hStatus.some
    /\ hStatus' = Some(StatusCodeOf(hErr))
    /\ UNCHANGED << hErr, hResp >>

\* the framework asks the error for its response
HErrorResponse ==
    /\ hErr # NoValue /\ hResp = NoValue
    /\ hResp' = ErrorResponse(hErr)
    /\ UNCHANGED << hErr, hStatus >>

(***************************************************************************)
(* Multipart::save_file (multipart.rs): File::create, one write_all per    *)
(* byte segment, flush; each await may fail with an io::Error, which `?`   *)
(* turns into MultipartError::IoError.                                     *)
(***************************************************************************)
\* the byte segments a generated FileInput is made of
Segments == { << "a", "b" >>, << "c" >>, <<>> }

RECURSIVE SegmentLists(_)
SegmentLists(n) ==
    IF n = 0 THEN { <<>> }
    ELSE SegmentLists(n - 1)
           \cup { Append(l, g) : l \in { x \in SegmentLists(n - 1) : Len(x) = n - 1 },
                                 g \in Segments }

\* what the target path holds before the call: nothing, or an older and longer file
DiskBefore == { None, Some(<< "o", "l", "d", "e", "r" >>) }

\* the prefixes of a segment that a failing write_all may have written
Prefixes(seg) == { SubSeq(seg, 1, n) : n \in 0..Len(seg) }

SInit ==
    /\ sFile = NoValue
    /\ sDisk = None
    /\ sStep = "idle"
    /\ sWritten = 0
    /\ sFault = "none"
    /\ sResult = NoValue

\* Multipart::save_file(&file_input, path) is called
SCall ==
    /\ sStep = "idle"
    /\ \E b \in SegmentLists(MaxChunks), d \in DiskBefore :
          /\ sFile' = [File(W_p_jpg, SumLen(b), Some(W_jpg), W_image_png) EXCEPT !.bytes = b]
          /\ sDisk' = d
    /\ sStep' = "create"
    /\ UNCHANGED << sWritten, sFault, sResult >>

\* File::create(path).await succeeds: the file exists and is empty
SCreate ==
    /\ sStep = "create"
    /\ sDisk' = Some(<<>>)
    /\ sStep' = IF sWritten < Len(sFile.bytes) THEN "write" ELSE "flush"
    /\ UNCHANGED << sFile, sWritten, sFault, sResult >>

\* File::create(path).await fails: `?` returns IoError
SCreateFails ==
    /\ sStep = "create"
    /\ sFault' = "create"
    /\ sResult' = Err(IoError)
    /\ sStep' = "done"
    /\ UNCHANGED << sFile, sDisk, sWritten >>

\* variant of SWriteFails: the error of write_all is dropped and the loop goes on
SWriteFailsIgnored ==
    /\ sStep = "write"
    /\ sFault' = "write"
    /\ \E part \in Prefixes(sFile.bytes[sWritten + 1]) : sDisk' = Some(sDisk.v \o part)
    /\ sWritten' = sWritten + 1
    /\ sStep' = IF sWritten + 1 < Len(sFile.bytes) THEN "write" ELSE "flush"
    /\ UNCHANGED << sFile, sResult >>

\* file.write_all(byte).await succeeds for the next segment
SWrite ==
    /\ sStep = "write"
    /\ sDisk' = Some(sDisk.v \o sFile.bytes[sWritten + 1])
    /\ sWritten' = sWritten + 1
    /\ sStep' = IF sWritten + 1 < Len(sFile.bytes) THEN "write" ELSE "flush"
    /\ UNCHANGED << sFile, sFault, sResult >>

\* file.write_all(byte).await fails, some prefix of the segment written: `?`
\* returns IoError
SWriteFails ==
    /\ sStep = "write"
    /\ sFault' = "write"
    /\ \E part \in Prefixes(sFile.bytes[sWritten + 1]) : sDisk' = Some(sDisk.v \o part)
    /\ sResult' = Err(IoError)
    /\ sStep' = "done"
    /\ UNCHANGED << sFile, sWritten >>

\* file.flush().await succeeds: save_file returns Ok(())
SFlush ==
    /\ sStep = "flush"
    /\ sResult' = Ok(Unit)
    /\ sStep' = "done"
    /\ UNCHANGED << sFile, sDisk, sWritten, sFault >>

\* file.flush().await fails: `?` returns IoError
SFlushFails ==
    /\ sStep = "flush"
    /\ sFault' = "flush"
    /\ sResult' = Err(IoError)
    /\ sStep' = "done"
    /\ UNCHANGED << sFile, sDisk, sWritten >>

(***************************************************************************)
(* ExecutorMiddlewareInternal::call (foxtive-ntex executor.rs): one        *)
(* request through a Before or an After middleware and the wrapped         *)
(* service. The middleware fn and the service are the application's: what  *)
(* they return is chosen freely.                                           *)
(***************************************************************************)
\* the requests generated
Requests == [ method : { "GET", "POST" }, path : { "/", "/a" }, ext : { "none" } ]

\* the request as a Before middleware may hand it back: untouched, or with an
\* extension set
Returnable(req) == { req, [req EXCEPT !.ext = "user"] }

\* the errors a middleware fn or the service may fail with
AppErrors == { "Unauthorized", "Boom" }

\* the responses the service gives, and what an After middleware makes of one
Responses == { [status |-> 200, by |-> "controller"], [status |-> 404, by |-> "controller"] }
Rewritten(resp) == { resp, [resp EXCEPT !.by = "middleware"] }

\* Error::from(ResponseError::new(err))
ResponseErrorOf(err) == [ResponseError |-> err]

NoHist ==
    [ midCalls |-> 0, midArg |-> NoValue, midResult |-> NoValue,
      handlerCalls |-> 0, handlerArg |-> NoValue, handlerResult |-> NoValue,
      log |-> <<>> ]

MwInit ==
    /\ mCall = NoValue
    /\ mStep = "idle"
    /\ mHist = NoHist
    /\ mOutcome = NoValue

\* call(request, ctx) is entered: request.into_parts() and the info! line. `shared`
\* says whether another handle on the HttpRequest is alive outside the call.
MwCall ==
    /\ mStep = "idle"
    /\ \E kind \in { "Before", "After" }, req \in Requests, shared \in BOOLEAN :
          /\ mCall' = [kind |-> kind, req |-> req, shared |-> shared]
          /\ mHist' = [mHist EXCEPT !.log = << "info" >>,
                                    !.midCalls = IF kind = "Before" THEN 1 ELSE 0,
                                    !.midArg = IF kind = "Before" THEN req ELSE NoValue]
          /\ mStep' = IF kind = "Before" THEN "before" ELSE "entered"
    /\ UNCHANGED mOutcome

\* Middleware::After: WebRequest::from_parts(req, payload).unwrap(), which panics when
\* the request is shared, then ctx.call(&self.service, request)
MwFromParts ==
    /\ mStep = "entered"
    /\ IF mCall.shared
       THEN /\ mStep' = "panicked"
            /\ UNCHANGED mHist
       ELSE /\ mStep' = "handler"
            /\ mHist' = [mHist EXCEPT !.handlerCalls = @ + 1, !.handlerArg = mCall.req]
    /\ UNCHANGED << mCall, mOutcome >>

\* variant of MwBeforeReturns: the service is called with the request as it came in
MwBeforeReturnsOriginalRequest ==
    /\ mStep = "before"
    /\ \/ \E req \in Returnable(mCall.req), kept \in BOOLEAN :
             IF kept \/ mCall.shared
             THEN /\ mHist' = [mHist EXCEPT !.midResult = Ok(req)]
                  /\ mStep' = "panicked"
                  /\ UNCHANGED mOutcome
             ELSE /\ mHist' = [mHist EXCEPT !.midResult = Ok(req),
                                            !.handlerCalls = @ + 1,
                                            !.handlerArg = mCall.req,
                                            !.log = Append(@, "debug")]
                  /\ mStep' = "handler"
                  /\ UNCHANGED mOutcome
       \/ \E err \in AppErrors :
             /\ mHist' = [mHist EXCEPT !.midResult = Err(err)]
             /\ mOutcome' = Err(ResponseErrorOf(err))
             /\ mStep' = "done"
    /\ UNCHANGED mCall

\* Middleware::Before: mid(req).await returns. On Ok(req) the request is put back
\* into a WebRequest (from_parts(..).unwrap() panics when the middleware kept a handle
\* on it) and the service is called; on Err(err) call returns the error.
MwBeforeReturns ==
    /\ mStep = "before"
    /\ \/ \E req \in Returnable(mCall.req), kept \in BOOLEAN :
             IF kept \/ mCall.shared
             THEN /\ mHist' = [mHist EXCEPT !.midResult = Ok(req)]
                  /\ mStep' = "panicked"
                  /\ UNCHANGED mOutcome
             ELSE /\ mHist' = [mHist EXCEPT !.midResult = Ok(req),
                                            !.handlerCalls = @ + 1,
                                            !.handlerArg = req,
                                            !.log = Append(@, "debug")]
                  /\ mStep' = "handler"
                  /\ UNCHANGED mOutcome
       \/ \E err \in AppErrors :
             /\ mHist' = [mHist EXCEPT !.midResult = Err(err)]
             /\ mOutcome' = Err(ResponseErrorOf(err))
             /\ mStep' = "done"
    /\ UNCHANGED mCall

\* ctx.call(&self.service, request).await returns. Before: that is the outcome.
\* After: on Ok(resp) the middleware fn is called with resp; on Err(err) the error is
\* logged and returned.
MwHandlerReturns ==
    /\ mStep = "handler"
    /\ \/ \E resp \in Responses :
             IF mCall.kind = "Before"
             THEN /\ mHist' = [mHist EXCEPT !.handlerResult = Ok(resp)]
                  /\ mOutcome' = Ok(resp)
                  /\ mStep' = "done"
             ELSE /\ mHist' = [mHist EXCEPT !.handlerResult = Ok(resp),
                                            !.midCalls = @ + 1,
                                            !.midArg = resp]
                  /\ mStep' = "after"
                  /\ UNCHANGED mOutcome
       \/ \E err \in AppErrors :
             /\ mHist' = [mHist EXCEPT !.handlerResult = Err(err),
                                       !.log = IF mCall.kind = "After"
                                               THEN Append(@, "error") ELSE @]
             /\ mOutcome' = Err(err)
             /\ mStep' = "done"
    /\ UNCHANGED mCall

\* Middleware::After: mid(resp).await returns. Ok(resp) is the outcome; on Err(err) the
\* error is logged and returned as a ResponseError.
MwAfterReturns ==
    /\ mStep = "after"
    /\ \/ \E resp \in Rewritten(mHist.handlerResult.v) :
             /\ mHist' = [mHist EXCEPT !.midResult = Ok(resp)]
             /\ mOutcome' = Ok(resp)
       \/ \E err \in AppErrors :
             /\ mHist' = [mHist EXCEPT !.midResult = Err(err), !.log = Append(@, "error")]
             /\ mOutcome' = Err(ResponseErrorOf(err))
    /\ mStep' = "done"
    /\ UNCHANGED mCall

(***************************************************************************)
(* Specifications.                                                         *)
(***************************************************************************)
Init == MPInit /\ CDInit /\ ValInit /\ HInit /\ SInit /\ MwInit /\ QInit /\ RInit

Next ==
    \/ CallProcess /\ UNCHANGED << cdVars, valVars, httpVars, auxVars >>
    \/ CallValidate /\ UNCHANGED << cdVars, valVars, httpVars, auxVars >>
    \/ NextNone /\ UNCHANGED << cdVars, valVars, httpVars, auxVars >>
    \/ NextError /\ UNCHANGED << cdVars, valVars, httpVars, auxVars >>
    \/ NextPart /\ UNCHANGED << cdVars, valVars, httpVars, auxVars >>
    \/ CallPost /\ UNCHANGED << cdVars, valVars, httpVars, auxVars >>
    \/ CallPostOption /\ UNCHANGED << cdVars, valVars, httpVars, auxVars >>
    \/ CallPostOr /\ UNCHANGED << cdVars, valVars, httpVars, auxVars >>
    \/ CallPostOpt /\ UNCHANGED << cdVars, valVars, httpVars, auxVars >>
    \/ CallPostCustom /\ UNCHANGED << cdVars, valVars, httpVars, auxVars >>

\* the Multipart aggregator and its accessors
Spec == Init /\ [][Next]_vars

NextCD ==
    \/ CDAddSegment /\ UNCHANGED << mpVars, valVars, httpVars, auxVars >>
    \/ CDParse /\ UNCHANGED << mpVars, valVars, httpVars, auxVars >>

\* ContentDisposition::parse on generated headers
SpecCD == Init /\ [][NextCD]_vars

NextVal ==
    \/ VPickRules /\ UNCHANGED << mpVars, cdVars, httpVars, auxVars >>
    \/ VPresent /\ UNCHANGED << mpVars, cdVars, httpVars, auxVars >>
    \/ VAddFile /\ UNCHANGED << mpVars, cdVars, httpVars, auxVars >>
    \/ VValidate /\ UNCHANGED << mpVars, cdVars, httpVars, auxVars >>
    \/ VDisplay /\ UNCHANGED << mpVars, cdVars, httpVars, auxVars >>

\* Validator::validate_files on generated rules and files
SpecVal == Init /\ [][NextVal]_vars

NextHttp ==
    \/ HRaise /\ UNCHANGED << mpVars, cdVars, valVars, auxVars >>
    \/ HStatusCode /\ UNCHANGED << mpVars, cdVars, valVars, auxVars >>
    \/ HErrorResponse /\ UNCHANGED << mpVars, cdVars, valVars, auxVars >>

\* HttpError::status_code and HttpError::error_response on generated errors
SpecHttp == Init /\ [][NextHttp]_vars

NextSave ==
    \/ SCall /\ UNCHANGED << mpVars, cdVars, valVars, httpVars, mwVars, quoteVars, routeVars >>
    \/ SCreate /\ UNCHANGED << mpVars, cdVars, valVars, httpVars, mwVars, quoteVars, routeVars >>
    \/ SCreateFails /\ UNCHANGED << mpVars, cdVars, valVars, httpVars, mwVars, quoteVars, routeVars >>
    \/ SWrite /\ UNCHANGED << mpVars, cdVars, valVars, httpVars, mwVars, quoteVars, routeVars >>
    \/ SWriteFails /\ UNCHANGED << mpVars, cdVars, valVars, httpVars, mwVars, quoteVars, routeVars >>
    \/ SFlush /\ UNCHANGED << mpVars, cdVars, valVars, httpVars, mwVars, quoteVars, routeVars >>
    \/ SFlushFails /\ UNCHANGED << mpVars, cdVars, valVars, httpVars, mwVars, quoteVars, routeVars >>

\* Multipart::save_file on generated files and target paths
SpecSave == Init /\ [][NextSave]_vars

NextMw ==
    \/ MwCall /\ UNCHANGED << mpVars, cdVars, valVars, httpVars, saveVars, quoteVars, routeVars >>
    \/ MwFromParts /\ UNCHANGED << mpVars, cdVars, valVars, httpVars, saveVars, quoteVars, routeVars >>
    \/ MwBeforeReturns /\ UNCHANGED << mpVars, cdVars, valVars, httpVars, saveVars, quoteVars, routeVars >>
    \/ MwHandlerReturns /\ UNCHANGED << mpVars, cdVars, valVars, httpVars, saveVars, quoteVars, routeVars >>
    \/ MwAfterReturns /\ UNCHANGED << mpVars, cdVars, valVars, httpVars, saveVars, quoteVars, routeVars >>

\* ExecutorMiddlewareInternal::call on generated requests, middlewares and handlers
SpecMw == Init /\ [][NextMw]_vars

NextQuote ==
    \/ QWrite /\ UNCHANGED << mpVars, cdVars, valVars, httpVars, saveVars, mwVars, routeVars >>
    \/ QParse /\ UNCHANGED << mpVars, cdVars, valVars, httpVars, saveVars, mwVars, routeVars >>

\* ContentDisposition::parse on parameter values written with layers of quotes
SpecQuote == Init /\ [][NextQuote]_vars

NextRoutes ==
    \/ RNextRoute /\ UNCHANGED << mpVars, cdVars, valVars, httpVars, saveVars, mwVars, quoteVars >>
    \/ RController /\ UNCHANGED << mpVars, cdVars, valVars, httpVars, saveVars, mwVars, quoteVars >>
    \/ REndRoute /\ UNCHANGED << mpVars, cdVars, valVars, httpVars, saveVars, mwVars, quoteVars >>

\* register_routes on generated routes
SpecRoutes == Init /\ [][NextRoutes]_vars

(***************************************************************************)
(* Properties.                                                             *)
(***************************************************************************)
\* every character of s is white space (s may be empty)
Blank(s) == \A i \in 1..Len(s) : s[i] \in WhiteSpace

\* the field has at least one DataInput
FieldPresent(f) == f \in DOMAIN data_inputs /\ data_inputs[f] # <<>>

\* the value of the first occurrence of a present field
FirstValue(f) == data_inputs[f][1].value

\* C1: post::<Option<T>>(field) is Ok(None) for an absent field and for a first value
\* that is empty or white space only, Ok(Some(v)) when the trimmed value parses as T,
\* and a ParseError (never Ok(None)) when the trimmed value is non-empty and unparsable.
C1_PostOptionCases ==
    ret.op = "post_option" =>
        LET f == ret.arg
        IN  /\ ~FieldPresent(f) => IsOk(ret.res) /\ ret.res.v = None
            /\ FieldPresent(f) =>
                 LET parsed == ParseT(Trim(FirstValue(f)))
                 IN  /\ Blank(FirstValue(f)) => IsOk(ret.res) /\ ret.res.v = None
                     /\ ~Blank(FirstValue(f)) /\ IsOk(parsed)
                            => IsOk(ret.res) /\ ret.res.v = Some(parsed.v)
                     /\ ~Blank(FirstValue(f)) /\ IsErr(parsed)
                            => IsErr(ret.res) /\ ret.res.v.kind = "ParseError"

\* C1 witness: post::<Option<T>> was called on a present, non-blank, unparsable value
C1_Witness ==
    /\ ret.op = "post_option"
    /\ FieldPresent(ret.arg)
    /\ ~Blank(FirstValue(ret.arg))
    /\ IsErr(ParseT(Trim(FirstValue(ret.arg))))
    /\ IsErr(ret.res)

\* C2: post::<T>(field) is MissingDataField when the field has no DataInput, a
\* ParseError when the first value is blank or rejected by T's parse routine, and
\* otherwise the value parsed from the trimmed first occurrence.
C2_PostCases ==
    ret.op = "post" =>
        LET f == ret.arg
        IN  /\ ~FieldPresent(f) => IsErr(ret.res) /\ ret.res.v = MissingDataField(f)
            /\ FieldPresent(f) =>
                 LET parsed == ParseT(Trim(FirstValue(f)))
                 IN  /\ Blank(FirstValue(f)) \/ IsErr(parsed)
                            => IsErr(ret.res) /\ ret.res.v.kind = "ParseError"
                     /\ ~Blank(FirstValue(f)) /\ IsOk(parsed)
                            => IsOk(ret.res) /\ ret.res.v = parsed.v

\* C2 witness: post::<T> succeeded on a field whose second occurrence holds another
\* value than the first
C2_Witness ==
    /\ ret.op = "post"
    /\ IsOk(ret.res)
    /\ FieldPresent(ret.arg)
    /\ Len(data_inputs[ret.arg]) = 2
    /\ data_inputs[ret.arg][2].value # FirstValue(ret.arg)

\* C3: post_opt::<T>(field) is Some(v) exactly when post::<T>(field) is Ok(v) and None
\* otherwise; on a present, non-blank, unparsable value it is None while
\* post::<Option<T>>(field) is an error.
C3_PostOptSwallows ==
    ret.op = "post_opt" =>
        LET f == ret.arg
            r == Post(data_inputs, f)
        IN  /\ IsOk(r) => ret.res = Some(r.v)
            /\ ~IsOk(r) => ret.res = None
            /\ (FieldPresent(f) /\ ~Blank(FirstValue(f))
                  /\ IsErr(ParseT(Trim(FirstValue(f)))))
                 => ret.res = None /\ IsErr(PostOption(data_inputs, f))

\* C3 witness: post_opt::<T> returned None for a present, non-blank, unparsable value
C3_Witness ==
    /\ ret.op = "post_opt"
    /\ ret.res = None
    /\ FieldPresent(ret.arg)
    /\ ~Blank(FirstValue(ret.arg))
    /\ IsErr(ParseT(Trim(FirstValue(ret.arg))))

\* C4: post_or::<T>(field, default) is the parsed value when post::<T>(field) succeeds
\* and the caller's default when the field is missing, blank or unparsable.
C4_PostOrDefault ==
    ret.op = "post_or" =>
        LET f == ret.arg.field
            r == Post(data_inputs, f)
        IN  /\ IsOk(r) => ret.res = r.v
            /\ ~FieldPresent(f) => ret.res = ret.arg.default
            /\ FieldPresent(f) /\ Blank(FirstValue(f)) => ret.res = ret.arg.default
            /\ FieldPresent(f) /\ IsErr(ParseT(Trim(FirstValue(f))))
                 => ret.res = ret.arg.default

\* C4 witness: post_or::<T> returned the default for a present, unparsable value
C4_Witness ==
    /\ ret.op = "post_or"
    /\ FieldPresent(ret.arg.field)
    /\ ~Blank(FirstValue(ret.arg.field))
    /\ IsErr(ParseT(Trim(FirstValue(ret.arg.field))))
    /\ ret.res = ret.arg.default
    /\ ret.res # 0

\* the step hands one more part of the stream to the loop of process
PartStep ==
    /\ Len(delivered') = Len(delivered) + 1
    /\ delivered'[Len(delivered')].kind = "part"

\* the part handled by a PartStep
StepPart == delivered'[Len(delivered')]

\* the parameters of the content-disposition of a part (none when the header is
\* missing or unreadable)
PartParams(p) ==
    IF p.cd.hv = "text" THEN Parse(p.cd.s).variables ELSE EmptyMap

\* every chunk of the part is read without failure
ChunksIntact(p) == \A i \in 1..Len(p.chunks) : IsOk(p.chunks[i])

\* new is old with exactly one entry pushed at the end of the list under key k
PushedOne(old, new, k) ==
    /\ k \in DOMAIN new
    /\ new[k] # <<>>
    /\ new = MapPush(old, k, new[k][Len(new[k])])

\* C5 as stated: a part with a `filename` parameter yields a FileInput and no
\* DataInput; a part with `name` but no `filename` yields a DataInput and no FileInput;
\* a part with neither adds nothing.
C5_Original ==
    [][ PartStep =>
          LET params == PartParams(StepPart)
              hasName == W_name \in DOMAIN params
              hasFilename == W_filename \in DOMAIN params
          IN  /\ hasFilename =>
                   /\ data_inputs' = data_inputs
                   /\ \E k \in DOMAIN file_inputs' : PushedOne(file_inputs, file_inputs', k)
              /\ hasName /\ ~hasFilename =>
                   /\ file_inputs' = file_inputs
                   /\ PushedOne(data_inputs, data_inputs', params[W_name])
              /\ ~hasName /\ ~hasFilename =>
                   /\ data_inputs' = data_inputs
                   /\ file_inputs' = file_inputs ]_vars

\* C5 amended: a part with a `filename` parameter never yields a DataInput, and it
\* yields a FileInput (under its `name`, carrying its `filename`) exactly when it also
\* has a `name` parameter, a readable content-type header and no failed chunk;
\* otherwise it adds nothing. A part with `name` but no `filename` yields a DataInput
\* under that name and no FileInput; a part with neither adds nothing.
C5_Classification ==
    [][ PartStep =>
          LET p == StepPart
              params == PartParams(p)
              hasName == W_name \in DOMAIN params
              hasFilename == W_filename \in DOMAIN params
              stored == hasName /\ p.ct.hv = "text" /\ ChunksIntact(p)
          IN  /\ hasFilename => data_inputs' = data_inputs
              /\ hasFilename /\ stored =>
                   /\ PushedOne(file_inputs, file_inputs', params[W_name])
                   /\ LET list == file_inputs'[params[W_name]]
                      IN  /\ list[Len(list)].file_name = params[W_filename]
                          /\ list[Len(list)].field_name = params[W_name]
              /\ hasFilename /\ ~stored => file_inputs' = file_inputs
              /\ hasName /\ ~hasFilename =>
                   /\ file_inputs' = file_inputs
                   /\ PushedOne(data_inputs, data_inputs', params[W_name])
                   /\ LET list == data_inputs'[params[W_name]]
                      IN  list[Len(list)].name = params[W_name]
              /\ ~hasName /\ ~hasFilename =>
                   /\ data_inputs' = data_inputs
                   /\ file_inputs' = file_inputs ]_vars

\* C5 witness: a part with `name` and `filename` has given a FileInput, and the part
\* after it, with a `filename` and no `name`, has been passed over
C5_Witness ==
    /\ Len(delivered) = 2
    /\ delivered[1].kind = "part" /\ delivered[2].kind = "part"
    /\ DOMAIN PartParams(delivered[1]) = { W_name, W_filename }
    /\ DOMAIN PartParams(delivered[2]) = { W_filename }
    /\ pc = "running"
    /\ data_inputs = EmptyMap
    /\ \E k \in DOMAIN file_inputs : Len(file_inputs[k]) = 1

\* C6: a part whose content-disposition has no `name` parameter is skipped without
\* error: neither map changes, FileInput::create is not entered, nothing is returned
\* and process is still running, ready for the next part.
C6_NamelessSkipped ==
    [][ (PartStep /\ W_name \notin DOMAIN PartParams(StepPart)) =>
          /\ data_inputs' = data_inputs
          /\ file_inputs' = file_inputs
          /\ createCalls' = createCalls
          /\ ret' = ret
          /\ pc' = "running" ]_vars

\* C6 witness: a part with a `filename` and no `name` was skipped and the text part
\* that followed it was stored
C6_Witness ==
    /\ Len(delivered) = 2
    /\ delivered[1].kind = "part" /\ delivered[2].kind = "part"
    /\ DOMAIN PartParams(delivered[1]) = { W_filename }
    /\ DOMAIN PartParams(delivered[2]) = { W_name }
    /\ createCalls = 0
    /\ \E k \in DOMAIN data_inputs : Len(data_inputs[k]) = 1
    /\ pc = "running"

\* the `k="v"` segments of the header under test, by position
KvSegs == { i \in 1..Len(cdSegs) : cdSegs[i].kind = "kv" }

\* no later segment of the header repeats the key of segment i
LastOfKey(i) == \A j \in KvSegs : j > i => cdSegs[j].k # cdSegs[i].k

\* C7: for a header made of `k="v"` segments and bare tokens separated by `;`, with
\* white space around `;` and `=`, looking up each key gives its v (of the key's last
\* segment when a key is repeated), quotes and surrounding white space removed; the
\* keys of the map are exactly the keys of the `k="v"` segments, so a segment
\* without `=` adds no entry; the empty header gives an empty map and both flags false.
C7_ParseLookup ==
    cdResult # NoValue =>
        /\ \A i \in KvSegs :
              LastOfKey(i) => GetVariable(cdResult, cdSegs[i].k) = Some(cdSegs[i].v)
        /\ DOMAIN cdResult.variables = { cdSegs[i].k : i \in KvSegs }
        /\ RenderHeader(cdSegs) = <<>> =>
              /\ cdResult.variables = EmptyMap
              /\ ~cdResult.is_file_field
              /\ ~cdResult.has_name_field

\* C7 witness: a parsed header ` form-data;  name =\t "v" ` : a bare token, then a
\* `k="v"` segment with white space before the key, around `=` and after the value
C7_Witness ==
    /\ cdResult # NoValue
    /\ Len(cdSegs) = 2
    /\ cdSegs[1].kind = "bare" /\ cdSegs[1].text = W_form_data
    /\ cdSegs[2].kind = "kv"
    /\ cdSegs[2].pad.beq # <<>> /\ cdSegs[2].pad.aeq # <<>> /\ cdSegs[2].pad.post # <<>>
    /\ GetVariable(cdResult, cdSegs[2].k) = Some(cdSegs[2].v)

\* the number of files under a field of a file map given as an Option
FileCount(files) == IF files.some THEN Len(files.v) ELSE 0

\* the first failing per-file check, in the order C8 lists them
StatedFileFailure(rules, file) ==
    IF rules.extension_required /\ ~file.extension.some
    THEN Some(MissingFileExtension(file.file_name))
    ELSE IF rules.min_size.some /\ file.size < rules.min_size.v
    THEN Some(FileTooSmall(rules.min_size.v))
    ELSE IF rules.max_size.some /\ file.size > rules.max_size.v
    THEN Some(FileTooLarge(rules.max_size.v))
    ELSE IF rules.allowed_extensions.some
            /\ ~(file.extension.some
                   /\ Contains(rules.allowed_extensions.v, ToLowercase(file.extension.v)))
    THEN Some(InvalidFileExtension(file.extension))
    ELSE IF rules.allowed_content_types.some
            /\ ~Contains(rules.allowed_content_types.v, ToLowercase(file.content_type))
    THEN Some(InvalidContentType(rules.allowed_content_types.v))
    ELSE None

RECURSIVE StatedFilesFailure(_, _)
StatedFilesFailure(rules, list) ==
    IF list = <<>> THEN None
    ELSE LET r == StatedFileFailure(rules, Head(list))
         IN  IF r.some THEN r ELSE StatedFilesFailure(rules, Tail(list))

\* the first failing check of a field, in the order C8 lists them
StatedFailure(rules, files) ==
    IF rules.required /\ FileCount(files) = 0 THEN Some(NoFiles)
    ELSE IF rules.min_files.some /\ FileCount(files) < rules.min_files.v
    THEN Some(TooFewFiles(FileCount(files)))
    ELSE IF rules.max_files.some /\ FileCount(files) > rules.max_files.v
    THEN Some(TooManyFiles(FileCount(files)))
    ELSE IF files.some THEN StatedFilesFailure(rules, files.v)
    ELSE None

\* C8 as stated: for one field the validator reports the first failing check in the
\* order NoFiles, TooFewFiles(count), TooManyFiles(count), then per file in list order
\* MissingFileExtension (extension_required), FileTooSmall, FileTooLarge,
\* InvalidFileExtension, InvalidContentType, and nothing when no check fails.
C8_Original ==
    vResult # NoValue =>
        LET stated == StatedFailure(vRules, vFiles)
        IN  IF stated.some
            THEN /\ IsErr(vResult)
                 /\ vResult.v.name = W_f
                 /\ vResult.v.error.m = stated.v.m
                 /\ vResult.v.error = stated.v
            ELSE IsOk(vResult)

\* the number of files stored under a field
Uploaded(f) == IF f \in DOMAIN file_inputs THEN Len(file_inputs[f]) ELSE 0

\* C9 as stated: validate returns an error whenever a rule sets min_files = n >= 1
\* for a field under which fewer than n files were uploaded, also when none was
\* uploaded and the rule is not `required`.
C9_Original ==
    (/\ ret.op = "validate"
     /\ \E f \in DOMAIN ret.arg :
           /\ ret.arg[f].min_files.some
           /\ ret.arg[f].min_files.v >= 1
           /\ Uploaded(f) < ret.arg[f].min_files.v)
        => IsErr(ret.res)

\* x equals some entry of the list up to letter case
MatchesUpToCase(x, list) ==
    \E i \in 1..Len(list) : ToLowercase(list[i]) = ToLowercase(x)

\* C10 as stated, for a field holding one file: the file is not rejected for its
\* extension (resp. content type) when the extension (resp. content type) equals an
\* entry of the allow-list up to case, and it is rejected when its extension matches
\* no entry, an InvalidFileExtension error carrying the file's own extension.
C10_Original ==
    (vResult # NoValue /\ vFiles.some /\ Len(vFiles.v) = 1) =>
        LET g == vFiles.v[1]
            rejectedFor(m) == IsErr(vResult) /\ vResult.v.error.m = m
        IN  /\ (vRules.allowed_extensions.some /\ g.extension.some) =>
                 IF MatchesUpToCase(g.extension.v, vRules.allowed_extensions.v)
                 THEN ~rejectedFor("InvalidFileExtension")
                 ELSE /\ IsErr(vResult)
                      /\ rejectedFor("InvalidFileExtension")
                            => vResult.v.error.ext = g.extension
            /\ vRules.allowed_content_types.some =>
                 IF MatchesUpToCase(g.content_type, vRules.allowed_content_types.v)
                 THEN ~rejectedFor("InvalidContentType")
                 ELSE IsErr(vResult)

\* the count checks of the field pass, every file before the k-th passes every check
\* and the k-th file is not turned away for a required extension it lacks
ReachesSizeChecks(k) ==
    /\ ~(vRules.required /\ Len(vFiles.v) = 0)
    /\ ~BelowMinFiles(Len(vFiles.v), vRules)
    /\ ~AboveMaxFiles(Len(vFiles.v), vRules)
    /\ \A j \in 1..(k - 1) : IsOk(ValidateFile(vRules, vFiles.v[j]))
    /\ ~(vRules.extension_required /\ ~vFiles.v[k].extension.some)

\* the field's validation failed with the given kind of error
RejectedWith(m) == IsErr(vResult) /\ vResult.v.error.m = m

\* C11: a file reaching the size checks with size < min_size is rejected with
\* FileTooSmall(min_size), one with size > max_size with FileTooLarge(max_size); a
\* size error is only ever reported when some file lies strictly outside the bound it
\* names, so every size with min_size <= size <= max_size passes, and an absent bound
\* never rejects.
C11_SizeBounds ==
    (vResult # NoValue /\ vFiles.some) =>
        LET min == vRules.min_size
            max == vRules.max_size
            list == vFiles.v
        IN  /\ \A k \in 1..Len(list) :
                  ReachesSizeChecks(k) =>
                     LET small == min.some /\ list[k].size < min.v
                         large == max.some /\ list[k].size > max.v
                     IN  /\ small => /\ RejectedWith("FileTooSmall")
                                     /\ vResult.v = InputError(list[k].field_name,
                                                               FileTooSmall(min.v))
                         /\ (~small /\ large) =>
                                /\ RejectedWith("FileTooLarge")
                                /\ vResult.v = InputError(list[k].field_name,
                                                          FileTooLarge(max.v))
            /\ RejectedWith("FileTooSmall") =>
                  /\ min.some
                  /\ vResult.v.error.n = min.v
                  /\ \E k \in 1..Len(list) : list[k].size < min.v
            /\ RejectedWith("FileTooLarge") =>
                  /\ max.some
                  /\ vResult.v.error.n = max.v
                  /\ \E k \in 1..Len(list) : list[k].size > max.v

\* C11 witness: under min_size 2 and max_size 3 a first file of exactly 2 bytes passed
\* and the second, of 4 bytes, was rejected with FileTooLarge(3)
C11_Witness ==
    /\ vResult # NoValue /\ vFiles.some
    /\ vRules.min_size = Some(2) /\ vRules.max_size = Some(3)
    /\ Len(vFiles.v) = 2
    /\ vFiles.v[1].size = 2 /\ vFiles.v[2].size = 4
    /\ RejectedWith("FileTooLarge")
    /\ vResult.v.error = FileTooLarge(3)

\* the byte chunks of a part, in the order the stream delivers them
ChunkSeq(p) == [i \in 1..Len(p.chunks) |-> p.chunks[i].v]

\* the stored file came from this delivered part
FromPart(g, p) ==
    /\ p.kind = "part"
    /\ ChunksIntact(p)
    /\ DOMAIN PartParams(p) = { W_name, W_filename }
    /\ PartParams(p)[W_name] = g.field_name
    /\ PartParams(p)[W_filename] = g.file_name
    /\ g.bytes = ChunkSeq(p)

\* C12: every FileInput in the file map has size equal to the sum of the lengths of
\* its chunks, the value calculate_size() gives; its chunks are those of a delivered
\* part, in delivery order; a FileInput without chunk has size 0.
C12_SizeIsSum ==
    \A k \in DOMAIN file_inputs :
        \A i \in 1..Len(file_inputs[k]) :
            LET g == file_inputs[k][i]
            IN  /\ g.size = CalculateSize(g)
                /\ g.size = SumLen(g.bytes)
                /\ g.bytes = <<>> => g.size = 0
                /\ \E j \in 1..Len(delivered) : FromPart(g, delivered[j])

\* C12 witness: process has completed with a file of two chunks (2 + 1 bytes) and a
\* file of no chunk in the map
C12_Witness ==
    /\ pc = "idle" /\ ret.op = "process" /\ IsOk(ret.res)
    /\ \E k \in DOMAIN file_inputs :
          \E i \in 1..Len(file_inputs[k]) :
              Len(file_inputs[k][i].bytes) = 2 /\ file_inputs[k][i].size = 3
    /\ \E k \in DOMAIN file_inputs :
          \E i \in 1..Len(file_inputs[k]) :
              file_inputs[k][i].bytes = <<>> /\ file_inputs[k][i].size = 0

\* p is a text part carrying the name k
TextPartNamed(p, k) ==
    /\ p.kind = "part"
    /\ DOMAIN PartParams(p) = { W_name }
    /\ PartParams(p)[W_name] = k

\* p is a file part carrying the name k that process can store: its content type is
\* readable and none of its chunks fails
FilePartNamed(p, k) ==
    /\ p.kind = "part"
    /\ DOMAIN PartParams(p) = { W_name, W_filename }
    /\ PartParams(p)[W_name] = k
    /\ p.ct.hv = "text"
    /\ ChunksIntact(p)

\* the text parts named k among the items, in order
RECURSIVE TextPartsNamed(_, _)
TextPartsNamed(items, k) ==
    IF items = <<>> THEN <<>>
    ELSE (IF TextPartNamed(Head(items), k) THEN << Head(items) >> ELSE <<>>)
            \o TextPartsNamed(Tail(items), k)

\* the storable file parts named k among the items, in order
RECURSIVE FilePartsNamed(_, _)
FilePartsNamed(items, k) ==
    IF items = <<>> THEN <<>>
    ELSE (IF FilePartNamed(Head(items), k) THEN << Head(items) >> ELSE <<>>)
            \o FilePartsNamed(Tail(items), k)

\* the list stored under k in a map, empty when k is no key
Stored(m, k) == IF k \in DOMAIN m THEN m[k] ELSE <<>>

\* the field names the parts of the model carry
PartNames == { W_a, W_b, W_f }

\* C13: the list stored for a field name holds exactly one DataInput per delivered
\* text part of that name, and one FileInput per delivered file part of that name that
\* was readable, in the order the parts arrived; no key has an empty list; first_data
\* and first_file give the entry of the earliest such part.
C13_OrderedLists ==
    /\ DOMAIN data_inputs \subseteq PartNames
    /\ DOMAIN file_inputs \subseteq PartNames
    /\ \A k \in PartNames :
          LET texts == TextPartsNamed(delivered, k)
              files == FilePartsNamed(delivered, k)
              ds == Stored(data_inputs, k)
              fs == Stored(file_inputs, k)
          IN  /\ Len(ds) = Len(texts)
              /\ \A i \in 1..Len(ds) :
                    /\ ds[i].name = k
                    /\ ds[i].value = CollectDataFieldValue(texts[i].chunks)
              /\ Len(fs) = Len(files)
              /\ \A i \in 1..Len(fs) : FromPart(fs[i], files[i])
              /\ (k \in DOMAIN data_inputs) = (texts # <<>>)
              /\ (k \in DOMAIN file_inputs) = (files # <<>>)
              /\ FirstData(data_inputs, k) =
                    (IF texts = <<>> THEN None ELSE Some(ds[1]))
              /\ FirstFile(file_inputs, k) =
                    (IF files = <<>> THEN None ELSE Some(fs[1]))

\* C13 witness: two files of different names arrived under the same field; both are
\* stored, in arrival order, and first_file gives the one that arrived first
C13_Witness ==
    /\ Len(delivered) = 2
    /\ FilePartNamed(delivered[1], W_f) /\ FilePartNamed(delivered[2], W_f)
    /\ PartParams(delivered[1])[W_filename] # PartParams(delivered[2])[W_filename]
    /\ Len(Stored(file_inputs, W_f)) = 2
    /\ FirstFile(file_inputs, W_f).some
    /\ FirstFile(file_inputs, W_f).v.file_name = PartParams(delivered[1])[W_filename]

\* the step hands an error of the stream, in place of a part, to the loop of process
StreamErrorStep ==
    /\ Len(delivered') = Len(delivered) + 1
    /\ delivered'[Len(delivered')].kind = "error"

\* the step ends the running call of process or validate with a value returned
ReturnStep == pc = "running" /\ pc' = "idle"

\* what a stream error does to the running call: it returns NtexError at once and
\* both maps keep what the earlier parts gave
ErrorReturnedAtOnce ==
    StreamErrorStep =>
        /\ ReturnStep
        /\ IsErr(ret'.res)
        /\ ret'.res.v = NtexError
        /\ data_inputs' = data_inputs
        /\ file_inputs' = file_inputs

\* C14 as stated: a stream error is returned at once as NtexError with the maps left
\* as they were; a call that returns for any other reason has drained the stream to
\* its end.
C14_Original ==
    [][ /\ ErrorReturnedAtOnce
        /\ (ReturnStep /\ ~StreamErrorStep) => streamState' # "open" ]_vars

\* C14 amended: a stream error is returned at once as NtexError with the maps left as
\* they were; the call returns Ok only once the stream has reported its end, and a
\* return before that end is an error: the stream's, or NoContentType from a file part.
C14_StreamError ==
    [][ /\ ErrorReturnedAtOnce
        /\ (ReturnStep /\ IsOk(ret'.res)) =>
              /\ streamState' # "open"
              /\ delivered' = delivered
        /\ (ReturnStep /\ streamState' = "open") =>
              /\ IsErr(ret'.res)
              /\ ret'.res.v.kind = "NoContentType" ]_vars

\* C14 witness: a text part was stored, then the stream failed: the call returned
\* NtexError and the DataInput is still in the map
C14_Witness ==
    /\ Len(delivered) = 2
    /\ delivered[1].kind = "part" /\ delivered[2].kind = "error"
    /\ pc = "idle"
    /\ ret.op \in { "process", "validate" }
    /\ IsErr(ret.res) /\ ret.res.v = NtexError
    /\ \E k \in DOMAIN data_inputs : Len(data_inputs[k]) = 1

\* C15 as stated: process never panics; when a chunk of a text part or of a file
\* part (a part with a `name` parameter) fails to be read, the call ends there and
\* returns a MultipartError.
C15_Original ==
    [][ /\ pc' # "panicked"
        /\ (/\ PartStep
            /\ W_name \in DOMAIN PartParams(StepPart)
            /\ StepPart.ct.hv = "text" \/ W_filename \notin DOMAIN PartParams(StepPart)
            /\ ~ChunksIntact(StepPart))
              => /\ pc' = "idle"
                 /\ IsErr(ret'.res) ]_vars

\* C16: when a part with both `name` and `filename` has no content-type header or an
\* unreadable one, the call returns NoContentType on that part: the part is not added
\* to the file map, the call is over (no later part is handled by it) and both maps
\* keep the entries of the earlier parts.
C16_NoContentType ==
    [][ (/\ PartStep
         /\ { W_name, W_filename } \subseteq DOMAIN PartParams(StepPart)
         /\ StepPart.ct.hv # "text")
           => /\ pc' = "idle"
              /\ IsErr(ret'.res)
              /\ ret'.res.v.kind = "NoContentType"
              /\ file_inputs' = file_inputs
              /\ data_inputs' = data_inputs
              /\ caller' = NoCaller ]_vars

\* C16 witness: a text part was stored, then a file part with an unreadable
\* content-type header ended the call with NoContentType; the DataInput is still
\* there and the file map is empty
C16_Witness ==
    /\ Len(delivered) = 2
    /\ delivered[1].kind = "part" /\ delivered[2].kind = "part"
    /\ DOMAIN PartParams(delivered[1]) = { W_name }
    /\ DOMAIN PartParams(delivered[2]) = { W_name, W_filename }
    /\ delivered[2].ct.hv = "opaque"
    /\ pc = "idle"
    /\ ret.op \in { "process", "validate" }
    /\ IsErr(ret.res) /\ ret.res.v.kind = "NoContentType"
    /\ file_inputs = EmptyMap
    /\ \E k \in DOMAIN data_inputs : Len(data_inputs[k]) = 1

\* the rules of the validator that Validator::validate_files rejects on the file map
Violated(validator, files) ==
    { f \in DOMAIN validator : IsErr(ValidateFiles(f, MapGet(files, f), validator[f])) }

\* C17: a call of validate that ends on an item process fails on (a stream error, a
\* file part without content type) returns that error and no ValidationError; one that
\* ends because the open stream reported its end returns Ok exactly when no rule is
\* violated on the file map, and otherwise the ValidationError of a violated rule; in
\* every case Ok means no rule is violated and a ValidationError is that of a
\* violated rule.
C17_ValidateAfterProcess ==
    [][ (ReturnStep /\ caller.fn = "validate") =>
          LET res == ret'.res
              bad == Violated(caller.validator, file_inputs')
              isValidation == IsErr(res) /\ res.v.kind = "ValidationError"
          IN  /\ ret'.op = "validate"
              /\ (PartStep \/ StreamErrorStep) => IsErr(res) /\ ~isValidation
              /\ (streamState = "open" /\ delivered' = delivered) =>
                    /\ IsOk(res) <=> bad = {}
                    /\ bad # {} => isValidation
              /\ IsOk(res) => bad = {}
              /\ isValidation =>
                    \E f \in bad :
                       res.v.input = ValidateFiles(f, MapGet(file_inputs', f),
                                                   caller.validator[f]).v ]_vars

\* C17 witness: validate drained a stream of two files under one field and returned
\* the ValidationError of the rule max_files = 1
C17_Witness ==
    /\ ret.op = "validate"
    /\ pc = "idle"
    /\ streamState = "ended"
    /\ Len(Stored(file_inputs, W_f)) = 2
    /\ IsErr(ret.res)
    /\ ret.res.v.kind = "ValidationError"
    /\ ret.res.v.input.error.m = "TooManyFiles"

\* C18: once the stream has reported its end, a further call of process (on its own
\* or inside validate) hands no item to the loop and leaves both maps as they were,
\* and process returns Ok again: nothing is added, duplicated or removed.
C18_RedrainAddsNothing ==
    [][ streamState = "ended" =>
          /\ data_inputs' = data_inputs
          /\ file_inputs' = file_inputs
          /\ delivered' = delivered
          /\ createCalls' = createCalls
          /\ (ReturnStep /\ caller.fn = "process") => IsOk(ret'.res) ]_vars

\* C18 witness: process drained a stream with a text part and a file part, then
\* validate was called and its process drained the exhausted stream again; each map
\* still holds its single entry
C18_Witness ==
    /\ endsSeen = 2
    /\ streamState = "ended"
    /\ pc = "idle"
    /\ ret.op = "validate"
    /\ Len(delivered) = 2
    /\ \E k \in DOMAIN data_inputs : Len(data_inputs[k]) = 1
    /\ \E k \in DOMAIN file_inputs : Len(file_inputs[k]) = 1

\* the error is a MultipartError holding a validation error of one of the given kinds
IsValidationOf(err, kinds) ==
    /\ err.variant = "MultipartError"
    /\ err.err.kind = "ValidationError"
    /\ err.err.input.error.m \in kinds

\* C19: status_code gives 415 for a MultipartError whose validation error is
\* InvalidFileExtension or InvalidContentType, 400 for every other MultipartError,
\* 500 for Std and Utf8Error; every error has one of these three statuses.
C19_StatusCode ==
    hStatus.some =>
        LET mediaType == IsValidationOf(hErr, { "InvalidFileExtension", "InvalidContentType" })
        IN  /\ mediaType => hStatus.v = 415
            /\ (hErr.variant = "MultipartError" /\ ~mediaType) => hStatus.v = 400
            /\ hErr.variant \in { "Std", "Utf8Error" } => hStatus.v = 500
            /\ hStatus.v \in { 400, 415, 500 }

\* C19 witness: status_code has answered 415 for an InvalidContentType validation error
C19_Witness ==
    /\ hStatus = Some(415)
    /\ IsValidationOf(hErr, { "InvalidContentType" })

\* C20: the response built for an HttpError::MultipartError has status 400, whatever
\* the MultipartError, a validation error of kind InvalidFileExtension included.
C20_ResponseBadRequest ==
    (hResp # NoValue /\ hErr.variant = "MultipartError") => hResp.status = 400

\* C20 witness: for an InvalidFileExtension validation error status_code has answered
\* 415 and the response built has status 400
C20_Witness ==
    /\ hResp # NoValue
    /\ IsValidationOf(hErr, { "InvalidFileExtension" })
    /\ hStatus = Some(415)
    /\ hResp.status = 400

\* the concatenation of a list of byte segments
RECURSIVE Concat(_)
Concat(segs) == IF segs = <<>> THEN <<>> ELSE Head(segs) \o Concat(Tail(segs))

\* C21: when save_file returns Ok the target path holds exactly the concatenation of
\* the FileInput's segments in list order, whatever it held before, and its length is
\* calculate_size(); when creating, writing or flushing failed, save_file returns
\* IoError, and it returns Ok only when none of them failed.
C21_SaveFile ==
    sStep = "done" =>
        /\ IsOk(sResult) =>
              /\ sDisk = Some(Concat(sFile.bytes))
              /\ Len(sDisk.v) = CalculateSize(sFile)
        /\ sFault # "none" => IsErr(sResult) /\ sResult.v = IoError
        /\ sFault = "none" => IsOk(sResult)

\* C21 witness: a file of two segments (2 + 1 bytes) was saved without failure; the
\* path holds the three bytes in order
C21_Witness ==
    /\ sStep = "done"
    /\ IsOk(sResult)
    /\ sFile.bytes = << << "a", "b" >>, << "c" >> >>
    /\ sDisk = Some(<< "a", "b", "c" >>)
    /\ sWritten = 2

\* C22 as stated: for a type registered with impl_post_parseable_for_custom_type!,
\* post::<T>(field) on a field that has no DataInput returns a ParseError.
C22_Original ==
    (ret.op = "post_custom" /\ ~FieldPresent(ret.arg)) =>
        /\ IsErr(ret.res)
        /\ ret.res.v.kind = "ParseError"

\* the middleware fn (resp. the service) has returned
HasReturned(x) == "tag" \in DOMAIN x

\* C23: the service is called at most once. With a Before middleware it is called only
\* after the middleware fn returned Ok, and with the request that was returned; when
\* the middleware fn returned an error the service is never called and the call ends
\* with that error. With an After middleware the middleware fn is called only after
\* the service returned a response, with that response, and never when it failed.
C23_MiddlewareOrder ==
    mCall # NoValue =>
        /\ mHist.handlerCalls <= 1
        /\ mHist.midCalls <= 1
        /\ mCall.kind = "Before" =>
              /\ mHist.handlerCalls = 1 =>
                    /\ HasReturned(mHist.midResult)
                    /\ IsOk(mHist.midResult)
                    /\ mHist.handlerArg = mHist.midResult.v
              /\ (HasReturned(mHist.midResult) /\ IsErr(mHist.midResult)) =>
                    /\ mHist.handlerCalls = 0
                    /\ mStep = "done"
                    /\ IsErr(mOutcome)
                    /\ mOutcome.v = ResponseErrorOf(mHist.midResult.v)
        /\ mCall.kind = "After" =>
              /\ mHist.midCalls = 1 =>
                    /\ HasReturned(mHist.handlerResult)
                    /\ IsOk(mHist.handlerResult)
                    /\ mHist.midArg = mHist.handlerResult.v
              /\ (HasReturned(mHist.handlerResult) /\ IsErr(mHist.handlerResult)) =>
                    mHist.midCalls = 0

\* C23 witness: a Before middleware handed back the request with an extension set, the
\* service was called once with that request and its response is the outcome
C23_Witness ==
    /\ mStep = "done"
    /\ mCall.kind = "Before"
    /\ mHist.handlerCalls = 1
    /\ mHist.handlerArg # mCall.req
    /\ mHist.handlerArg = mHist.midResult.v
    /\ IsOk(mOutcome)

\* C24 as stated: when an After middleware returns an error, the error is logged and
\* the outcome of the call is the response the service gave.
C24_Original ==
    (/\ mStep = "done"
     /\ mCall.kind = "After"
     /\ HasReturned(mHist.midResult)
     /\ IsErr(mHist.midResult))
        => /\ Contains(mHist.log, "error")
           /\ IsOk(mOutcome)
           /\ mOutcome.v = mHist.handlerResult.v

\* the number a message of four pieces ends with
StatedNumber(message) == message[4]

\* C25 as stated: the message of a TooFewFiles error states the rule's min_files, and
\* the message of a TooManyFiles error the rule's max_files.
C25_Original ==
    vMessage # NoValue =>
        /\ vResult.v.error.m = "TooFewFiles" =>
              /\ vMessage[3] = "'. Minimum is "
              /\ StatedNumber(vMessage) = vRules.min_files.v
        /\ vResult.v.error.m = "TooManyFiles" =>
              /\ vMessage[3] = "'. Maximum is "
              /\ StatedNumber(vMessage) = vRules.max_files.v

\* C26 as stated: parse strips exactly one layer of surrounding double quotes from a
\* value: a value written in n >= 1 layers is stored in n - 1 layers, so one written
\* in two layers keeps its inner layer, and white space inside the quotes is kept.
C26_Original ==
    (qResult # NoValue /\ qParam.layers >= 1) =>
        GetVariable(qResult, qParam.key) = Some(Quoted(qParam.inner, qParam.layers - 1))

\* C27 as stated: register_routes wraps the scope of every controller of a route with
\* every middleware of the route's `middlewares`, whatever their number and whatever
\* the combined prefix + controller path, the empty path included.
C27_Original ==
    [][ Len(rConfig') = Len(rConfig) + 1 =>
          \A i \in 1..Len(rRoute.middlewares) :
              \E j \in 1..Len(rConfig'[Len(rConfig')].wraps) :
                  rConfig'[Len(rConfig')].wraps[j] = rRoute.middlewares[i] ]_vars

\* the bytes are valid UTF-8: decoding them as a whole replaces nothing
ValidUtf8(bytes) == \A i \in 1..Len(FromUtf8Lossy(bytes)) : FromUtf8Lossy(bytes)[i] # "U+FFFD"

\* C28 as stated: for a text part whose complete body is valid UTF-8, the stored
\* DataInput value equals that body exactly, however the stream splits the body into
\* chunks, a split inside a multi-byte character included.
C28_Original ==
    [][ ( /\ PartStep
          /\ DOMAIN PartParams(StepPart) = { W_name }
          /\ ChunksIntact(StepPart)
          /\ ValidUtf8(Concat(ChunkSeq(StepPart))) ) =>
          LET k == PartParams(StepPart)[W_name]
          IN  /\ PushedOne(data_inputs, data_inputs', k)
              /\ data_inputs'[k][Len(data_inputs'[k])].value
                    = FromUtf8Lossy(Concat(ChunkSeq(StepPart))) ]_vars

\* C29: at every point of a run of process, and after it whether it succeeded or
\* failed, every key of the data map and of the file map maps to a non-empty list, every
\* DataInput (resp. FileInput) stored under k has name (resp. field_name) k, and
\* has_file(k) holds exactly when first_file(k) is Some.
C29_KeyedLists ==
    /\ \A k \in DOMAIN data_inputs :
          /\ data_inputs[k] # <<>>
          /\ \A i \in 1..Len(data_inputs[k]) : data_inputs[k][i].name = k
    /\ \A k \in DOMAIN file_inputs :
          /\ file_inputs[k] # <<>>
          /\ \A i \in 1..Len(file_inputs[k]) : file_inputs[k][i].field_name = k
    /\ \A k \in PartNames \cup Fields :
          HasFile(file_inputs, k) <=> FirstFile(file_inputs, k).some

\* C29 witness: process has failed after storing a file part; the file's field answers
\* has_file and first_file, a field without file answers neither
C29_Witness ==
    /\ pc = "idle" /\ ret.op = "process" /\ IsErr(ret.res)
    /\ HasFile(file_inputs, W_f) /\ FirstFile(file_inputs, W_f).some
    /\ ~HasFile(file_inputs, W_z) /\ ~FirstFile(file_inputs, W_z).some

\* what validate_files answers for field f of the validator, wrapped as validate
\* wraps it
FieldOutcome(validator, files, f) ==
    LET r == ValidateFiles(f, MapGet(files, f), validator[f])
    IN  IF IsErr(r) THEN Err(ValidationError(r.v)) ELSE Ok(Unit)

\* two results are both Ok, or both Err with the same error
SameResult(a, b) == a.tag = b.tag /\ a.v = b.v

\* C30: once validate has run its validator, whatever the order in which the rule map
\* is iterated, Validator::validate returns Ok exactly when no field violates its rule,
\* and otherwise the first violation of one of the violating fields; each violating
\* field's error is returned under some order, and what validate returned is the
\* result under one of the orders.
C30_OrderIndependent ==
    ( /\ pc = "idle" /\ ret.op = "validate"
      /\ IsOk(ret.res) \/ (IsErr(ret.res) /\ ret.res.v.kind = "ValidationError") ) =>
        LET validator == ret.arg
            bad == Violated(validator, file_inputs)
            orders == IterationOrders(validator)
            result(o) == ValidateInOrder(o, validator, file_inputs)
        IN  /\ \A o \in orders : IsOk(result(o)) <=> bad = {}
            /\ \A o \in orders :
                  IsErr(result(o)) =>
                     \E f \in bad :
                        SameResult(result(o), FieldOutcome(validator, file_inputs, f))
            /\ \A f \in bad :
                  \E o \in orders :
                     SameResult(result(o), FieldOutcome(validator, file_inputs, f))
            /\ \E o \in orders :
                  SameResult(result(o), IF IsOk(ret.res) THEN Ok(Unit) ELSE ret.res)

\* C30 witness: validate returned a ValidationError under a validator of two rules,
\* both violated on the file map
C30_Witness ==
    /\ pc = "idle" /\ ret.op = "validate"
    /\ IsErr(ret.res) /\ ret.res.v.kind = "ValidationError"
    /\ Cardinality(Violated(ret.arg, file_inputs)) = 2

====
